---- MODULE Spec2Model ----
(***************************************************************************)
(* Model of go-ratelimiter: the four Redis/Lua rate-limiting procedures    *)
(* (src/lua_script.go), the limiter engine that invokes them               *)
(* (src/limiter.go) and the key derivation.  Each algorithm has its own    *)
(* specification (SpecFW, SpecSW, SpecTB, SpecLB, SpecKey) over the shared *)
(* variables; a specification leaves the other components' variables at    *)
(* their initial values.                                                    *)
(***************************************************************************)
EXTENDS Integers, Sequences, FiniteSets, TLC

VARIABLES
    \* ---- Fixed Window: store key, script cache, callers of Do() ----
    fwLimit,        \* options.fixedWindowOptions.limitCount shared by the callers
    fwCounter,      \* the key's counter in the store; 0 = key absent
    fwTTL,          \* TRUE when the key carries an expiration (EXPIRE was called)
    fwExpireSets,   \* history: number of EXPIRE commands issued on the key since it was created
    fwCached,       \* TRUE when the store's script cache holds the script's digest
    fwReload,       \* TRUE while an asynchronous loadRedisScript is pending
    fwPc,           \* per caller: "start", "eval" (fallback pending), "done"
    fwRet,          \* per caller: value returned by Do()
    fwErr,          \* per caller: "nil" or "other" (error returned by Do())
    fwRets,         \* history: script results in execution order since the key was created
    fwExpired       \* history: TRUE once the key has expired (the window has ended)

VARIABLES
    \* ---- Sliding Window: one store key (a hash of sub-buckets) ----
    swMode,         \* "free": any timestamps; "example": the schedule 0,100,..,900 then 950 or 1100 ms
    swLimit,        \* ARGV[1] limitCount
    swWindow,       \* ARGV[3] timeRange in seconds
    swHash,         \* the key's hash: sub-bucket time -> count (empty = key absent)
    swTTL,          \* TRUE when the key carries an expiration
    swNow,          \* the timestamp (ms) of the latest call
    swCalls,        \* number of calls made
    swMono,         \* history: TRUE while the timestamps have been non-decreasing
    swAdmitted,     \* history: timestamps (ms) of the admitted calls since the key was created
    swLast          \* history: the latest call (time, result, state before it)

swVars == <<swMode, swLimit, swWindow, swHash, swTTL, swNow, swCalls, swMono,
            swAdmitted, swLast>>

VARIABLES
    \* ---- Token Bucket: one store key (a hash with lastRefillTime, tokensRemaining) ----
    tbMax,          \* options.tokenBucketOptions.maxTokens
    tbInterval,     \* options.tokenBucketOptions.timeInterval (seconds)
    tbInit,         \* options.tokenBucketOptions.initTokens
    tbExists,       \* TRUE when the key holds a bucket
    tbLastRefill,   \* the bucket's lastRefillTime (ms)
    tbTokens,       \* the bucket's tokensRemaining
    tbTTL,          \* the key's expiration as set by PEXPIRE (ms); 0 = none
    tbNow,          \* the timestamp (ms) of the latest call
    tbCalls,        \* number of calls made
    tbMono,         \* history: TRUE while the timestamps have been non-decreasing
    tbExpired,      \* history: TRUE once the key has expired
    tbGrants,       \* history: timestamps of the calls that returned a positive value
    tbInitTime,     \* history: timestamp of the latest initializing call
    tbMaxSince,     \* history: largest timestamp carried by a call since that initialization
    tbLast          \* history: the latest call

tbVars == <<tbMax, tbInterval, tbInit, tbExists, tbLastRefill, tbTokens, tbTTL, tbNow, tbCalls,
            tbMono, tbExpired, tbGrants, tbInitTime, tbMaxSince, tbLast>>

VARIABLES
    \* ---- Leaky Bucket: one store key, limiter instances, real time ----
    lbCapacity,     \* options.leakyBucketOptions.capacity
    lbLeakRate,     \* options.leakyBucketOptions.leakRate (requests per second)
    lbExists,       \* TRUE when the key holds currentWater and lastLeakTime
    lbWater,        \* the key's currentWater
    lbLastLeak,     \* the key's lastLeakTime (s)
    lbTick,         \* real time, in ticks of 1/LBTicksPerSec second
    lbInst,         \* per limiter instance: made, ctime (currentTime.Unix()), calls, passed
    lbLog           \* history: the script executions (tick, curTime argument, result)

lbVars == <<lbCapacity, lbLeakRate, lbExists, lbWater, lbLastLeak, lbTick, lbInst, lbLog>>

VARIABLES
    \* ---- Key derivation: limiter instances and the clock ----
    ksNow,          \* real time in seconds
    ksInst,         \* per limiter instance: type, product, options, currentTime, redisKey
    ksTouched       \* the (key, type) pairs on which a procedure has run

ksVars == <<ksNow, ksInst, ksTouched>>

VARIABLES
    \* ---- Procedure registry and invocation protocol ----
    scriptShas,     \* ScriptShas: the process-wide digest of each procedure (empty domain = nil)
    stScripts,      \* procedures held by the store's script cache
    stNet,          \* the store as seen from the process: "up", "slow" (timeouts), "down"
    ld,             \* goroutines running loadRedisScript
    dr,             \* goroutines running Do()
    rgInits,        \* number of Init calls made
    rgCalls,        \* number of Do() calls started
    rgCrashed,      \* the process died on a torn read of a digest
    rgSeqs,         \* history: number of load sequences begun
    rgEverSet,      \* history: procedures whose digest has been stored non-empty
    rgEvicts        \* number of times the store has lost its script cache

rgVars == <<scriptShas, stScripts, stNet, ld, dr, rgInits, rgCalls, rgCrashed,
            rgSeqs, rgEverSet, rgEvicts>>

VARIABLES
    \* ---- Decision record pipeline ----
    recordChan,     \* recordChan: the buffered channel of LimiterRecord, oldest first
    handlers,       \* handlers: the names that have a RecordHandler registered
    handled,        \* the Handle calls made, in order: (name, record, number of the record)
    rcDisp,         \* the processRecords goroutine: "idle", "start" or "parked"
    rcLog,          \* history: the records received from recordChan
    rcOrder         \* history: the registered names in the order of their registration

rcVars == <<recordChan, handlers, handled, rcDisp, rcLog, rcOrder>>

VARIABLES
    \* ---- Option normalization ----
    opPc,           \* "idle", "new" (instance constructed) or "done" (Do() has built its arguments)
    opType,         \* r.limiterType
    opOptions,      \* r.options
    opGiven,        \* history: the constructor the caller used and its arguments
    opArgs,         \* the arguments Do() passes to the procedure
    opRet           \* the value Do() returns

opVars == <<opPc, opType, opOptions, opGiven, opArgs, opRet>>

fwVars == <<fwLimit, fwCounter, fwTTL, fwExpireSets, fwCached, fwReload, fwPc, fwRet, fwErr,
            fwRets, fwExpired>>

VARIABLES
    \* ---- Sharded quota: the shard keys of one Fixed Window quota in one window ----
    shLimit,        \* options.fixedWindowOptions.limitCount (above MaxBucketCapacity)
    shCounter,      \* per shard index: the counter of the shard's key
    shAdmitted,     \* history: number of calls admitted, over all shard keys
    shSteps         \* number of steps taken

shVars == <<shLimit, shCounter, shAdmitted, shSteps>>

VARIABLES
    \* ---- Dispatcher and observer registry under handlerMutex ----
    plChan,         \* recordChan: the records queued, oldest first
    plHandlers,     \* handlers: per name the registered observer's kind, or "none"
    plReaders,      \* handlerMutex: number of read locks held
    plDisp,         \* the processRecords goroutine: pc, the record in hand, names still to visit
    plExt,          \* an application goroutine calling RegisterHandler / UnregisterHandler
    plOps,          \* number of registry calls the application goroutine has made
    plHandled,      \* history: the Handle calls made, in order: (name, record)
    plGone          \* history: per name, the latest UnregisterHandler(name) that returned

plVars == <<plChan, plHandlers, plReaders, plDisp, plExt, plOps, plHandled, plGone>>

vars == <<fwVars, swVars, tbVars, lbVars, ksVars, rgVars, rcVars, opVars, shVars, plVars>>

\* What a step of one component leaves alone: the other components.
FWFrame ==
    UNCHANGED <<swVars, tbVars, lbVars, ksVars, rgVars, rcVars, opVars, shVars, plVars>>
SWFrame ==
    UNCHANGED <<fwVars, tbVars, lbVars, ksVars, rgVars, rcVars, opVars, shVars, plVars>>
TBFrame ==
    UNCHANGED <<fwVars, swVars, lbVars, ksVars, rgVars, rcVars, opVars, shVars, plVars>>
LBFrame ==
    UNCHANGED <<fwVars, swVars, tbVars, ksVars, rgVars, rcVars, opVars, shVars, plVars>>
KSFrame ==
    UNCHANGED <<fwVars, swVars, tbVars, lbVars, rgVars, rcVars, opVars, shVars, plVars>>
RGFrame ==
    UNCHANGED <<fwVars, swVars, tbVars, lbVars, ksVars, rcVars, opVars, shVars, plVars>>
RCFrame ==
    UNCHANGED <<fwVars, swVars, tbVars, lbVars, ksVars, rgVars, opVars, shVars, plVars>>
OPFrame ==
    UNCHANGED <<fwVars, swVars, tbVars, lbVars, ksVars, rgVars, rcVars, shVars, plVars>>
SHFrame ==
    UNCHANGED <<fwVars, swVars, tbVars, lbVars, ksVars, rgVars, rcVars, opVars, plVars>>

PLFrame ==
    UNCHANGED <<fwVars, swVars, tbVars, lbVars, ksVars, rgVars, rcVars, opVars, shVars>>

Min(a, b) == IF a <= b THEN a ELSE b
Max(a, b) == IF a >= b THEN a ELSE b

(***************************************************************************)
(* Fixed Window                                                            *)
(***************************************************************************)
FWMaxLimit == 3
FWCallers  == 4

FWProcs == 1..FWCallers

\* FixedWindowScript, lines 41-55: value returned for a counter read as `current`.
FixedWindowResultOffByOne(current, limit) ==
    IF current >= limit THEN 0 ELSE limit - (current + 1)
FixedWindowResult(current, limit) ==
    IF current >= limit THEN 0 ELSE limit - (current + 1) + 1

\* FixedWindowScript: the counter after the call (INCR only below the limit).
FixedWindowCounterNoGuard(current, limit) == current + 1
FixedWindowCounter(current, limit) ==
    IF current >= limit THEN current ELSE current + 1

\* FixedWindowScript, lines 48-52: EXPIRE is issued only when INCR returned 1.
FixedWindowSetsExpireOnAdmit(current, limit) == current < limit
FixedWindowSetsExpire(current, limit) ==
    current < limit /\ current + 1 = 1

\* The store executes the script atomically on the key.
FWRunScript ==
    /\ fwCounter' = FixedWindowCounter(fwCounter, fwLimit)
    /\ fwTTL' = (fwTTL \/ FixedWindowSetsExpire(fwCounter, fwLimit))
    /\ fwExpireSets' = fwExpireSets + (IF FixedWindowSetsExpire(fwCounter, fwLimit) THEN 1 ELSE 0)
    /\ fwRets' = Append(fwRets, FixedWindowResult(fwCounter, fwLimit))

FWInit ==
    /\ fwLimit \in 1..FWMaxLimit
    /\ fwCounter = 0
    /\ fwTTL = FALSE
    /\ fwExpireSets = 0
    /\ fwCached \in BOOLEAN
    /\ fwReload = FALSE
    /\ fwPc = [p \in FWProcs |-> "start"]
    /\ fwRet = [p \in FWProcs |-> 0]
    /\ fwErr = [p \in FWProcs |-> "nil"]
    /\ fwRets = <<>>
    /\ fwExpired = FALSE

\* doFixedWindowLimiter, EvalSha succeeds: the script runs and Do() returns its value.
FWEvalShaOk(p) ==
    /\ fwPc[p] = "start"
    /\ fwCached
    /\ FWRunScript
    /\ fwRet' = [fwRet EXCEPT ![p] = FixedWindowResult(fwCounter, fwLimit)]
    /\ fwPc' = [fwPc EXCEPT ![p] = "done"]
    /\ UNCHANGED <<fwLimit, fwCached, fwReload, fwErr, fwExpired>>
    /\ FWFrame

\* EvalSha reports NOSCRIPT: nothing ran; an asynchronous reload is started and
\* doFixedWindowLimiter goes on to the Eval fallback.
FWEvalShaNoScript(p) ==
    /\ fwPc[p] = "start"
    /\ ~fwCached
    /\ fwReload' = TRUE
    /\ fwPc' = [fwPc EXCEPT ![p] = "eval"]
    /\ UNCHANGED <<fwLimit, fwCounter, fwTTL, fwExpireSets, fwCached, fwRet, fwErr, fwRets, fwExpired>>
    /\ FWFrame

\* Eval succeeds: the script runs (and the store caches it) and Do() returns its value.
FWEvalOk(p) ==
    /\ fwPc[p] = "eval"
    /\ FWRunScript
    /\ fwCached' = TRUE
    /\ fwRet' = [fwRet EXCEPT ![p] = FixedWindowResult(fwCounter, fwLimit)]
    /\ fwPc' = [fwPc EXCEPT ![p] = "done"]
    /\ UNCHANGED <<fwLimit, fwReload, fwErr, fwExpired>>
    /\ FWFrame

\* Either invocation fails with another error (transport, timeout, cancellation):
\* Do() returns (0, err).  The request may or may not have been executed by the store.
FWInvokeFails(p) ==
    /\ fwPc[p] \in {"start", "eval"}
    /\ \/ FWRunScript
       \/ UNCHANGED <<fwCounter, fwTTL, fwExpireSets, fwRets>>
    /\ fwRet' = [fwRet EXCEPT ![p] = 0]
    /\ fwErr' = [fwErr EXCEPT ![p] = "other"]
    /\ fwPc' = [fwPc EXCEPT ![p] = "done"]
    /\ UNCHANGED <<fwLimit, fwCached, fwReload, fwExpired>>
    /\ FWFrame

\* The key's expiration elapses: the store deletes the key.
FWExpire ==
    /\ fwTTL
    /\ fwCounter' = 0
    /\ fwTTL' = FALSE
    /\ fwExpireSets' = 0
    /\ fwRets' = <<>>
    /\ fwExpired' = TRUE
    /\ UNCHANGED <<fwLimit, fwCached, fwReload, fwPc, fwRet, fwErr>>
    /\ FWFrame

\* The store's script cache is emptied (SCRIPT FLUSH, restart, eviction).
FWScriptFlush ==
    /\ fwCached
    /\ fwCached' = FALSE
    /\ UNCHANGED <<fwLimit, fwCounter, fwTTL, fwExpireSets, fwReload, fwPc, fwRet, fwErr, fwRets, fwExpired>>
    /\ FWFrame

\* The goroutine started by EvalSha runs loadRedisScript: SCRIPT LOAD.
FWLoadRedisScript ==
    /\ fwReload
    /\ fwReload' = FALSE
    /\ fwCached' = TRUE
    /\ UNCHANGED <<fwLimit, fwCounter, fwTTL, fwExpireSets, fwPc, fwRet, fwErr, fwRets, fwExpired>>
    /\ FWFrame

\* The component at rest, as the other specifications keep it.
FWIdle ==
    /\ fwLimit = 0
    /\ fwCounter = 0
    /\ fwTTL = FALSE
    /\ fwExpireSets = 0
    /\ fwCached = FALSE
    /\ fwReload = FALSE
    /\ fwPc = <<>>
    /\ fwRet = <<>>
    /\ fwErr = <<>>
    /\ fwRets = <<>>
    /\ fwExpired = FALSE

FWNext ==
    \/ \E p \in FWProcs : FWEvalShaOk(p)
    \/ \E p \in FWProcs : FWEvalShaNoScript(p)
    \/ \E p \in FWProcs : FWEvalOk(p)
    \/ \E p \in FWProcs : FWInvokeFails(p)
    \/ FWExpire
    \/ FWScriptFlush
    \/ FWLoadRedisScript

\* ---- claims on Fixed Window ----

FWDone == {p \in FWProcs : fwPc[p] = "done"}
FWPositive == {p \in FWProcs : fwPc[p] = "done" /\ fwRet[p] > 0}

\* C1: within one window, on a key that started without a counter, the i-th call
\* executed by the store returns L - (i-1) while i <= L and 0 afterwards; the
\* counter read before the i-th call is i-1 capped at L.
C1_FixedWindowCountdown ==
    /\ \A i \in 1..Len(fwRets) :
          fwRets[i] = IF i <= fwLimit THEN fwLimit - i + 1 ELSE 0
    /\ fwCounter = Min(Len(fwRets), fwLimit)

\* C1 witness: more than L calls ran in one window, the last one denied.
C1_Witness ==
    /\ Len(fwRets) > fwLimit
    /\ fwLimit >= 2
    /\ fwRets[1] = fwLimit
    /\ fwRets[Len(fwRets)] = 0

\* C2: while the window lasts and no call failed with a store error, exactly
\* min(N, L) of the N completed concurrent calls returned a positive value, the
\* positive values are pairwise distinct, and the counter never exceeds L.
C2_ConcurrentAgreement ==
    /\ fwCounter <= fwLimit
    /\ (~fwExpired /\ \A p \in FWProcs : fwErr[p] = "nil") =>
          /\ Cardinality(FWPositive) = Min(Cardinality(FWDone), fwLimit)
          /\ \A p, q \in FWPositive : p # q => fwRet[p] # fwRet[q]

\* C2 witness: all callers are done without error in one window, more callers than
\* the limit, and one of them went through the NOSCRIPT fallback.
C2_Witness ==
    /\ ~fwExpired
    /\ FWDone = FWProcs
    /\ \A p \in FWProcs : fwErr[p] = "nil"
    /\ FWCallers > fwLimit
    /\ fwReload
    /\ Cardinality(FWPositive) = fwLimit

\* A step in which the store executes FixedWindowScript.
FWScriptRuns == Len(fwRets') = Len(fwRets) + 1

\* C25: only the call that raises the counter from absent to 1 sets the key's
\* expiration; every other admitted call leaves the expiration untouched, and a
\* denied call leaves the counter and the expiration unchanged.
C25_FixedWindowFrame ==
    [][FWScriptRuns =>
          /\ (fwExpireSets' = fwExpireSets + 1) <=> (fwCounter = 0 /\ fwCounter' = 1)
          /\ ~(fwCounter = 0 /\ fwCounter' = 1) =>
                (fwExpireSets' = fwExpireSets /\ fwTTL' = fwTTL)
          /\ fwCounter >= fwLimit =>
                (fwCounter' = fwCounter /\ fwExpireSets' = fwExpireSets /\ fwTTL' = fwTTL)]_vars

\* C25 witness: in one window the first call set the expiration, further calls were
\* admitted and one was denied, and the expiration has been set once.
C25_Witness ==
    /\ fwLimit >= 2
    /\ Len(fwRets) > fwLimit
    /\ fwRets[Len(fwRets)] = 0
    /\ fwCounter = fwLimit
    /\ fwTTL
    /\ fwExpireSets = 1

(***************************************************************************)
(* Sliding Window                                                          *)
(***************************************************************************)
SWMaxLimit  == 3
SWMaxWindow == 2
SWMaxCalls  == 4

\* constKeyCnt of SlideWindowScript
ConstKeyCnt == 1000

\* Steps (ms) by which the timestamp of the next call differs from the latest one.
SWDeltas == {0 - 400, 0, 1, 400, 600, 1000}

CeilDiv(a, b) == (a + b - 1) \div b

\* SlideWindowScript line 73: timeRange in ms.
SWTimeRange(window) == window * 1000

\* SlideWindowScript lines 79-83: littleWin, newTime and diffVal.
SWLittleWin(timeRange) == CeilDiv(timeRange, ConstKeyCnt)

SWNewTime(curTime, timeRange) ==
    IF timeRange > 1000 THEN curTime \div SWLittleWin(timeRange) ELSE curTime

SWDiffVal(timeRange) ==
    IF timeRange > 1000 THEN timeRange \div SWLittleWin(timeRange) ELSE timeRange

\* Sum of the counts of a set of fields of a hash.
RECURSIVE SumCounts(_, _)
SumCounts(hash, fields) ==
    IF fields = {} THEN 0
    ELSE LET f == CHOOSE x \in fields : TRUE
         IN  hash[f] + SumCounts(hash, fields \ {f})

\* SlideWindowScript lines 89-96: the fields kept by the loop (the others are HDEL'ed).
SWLiveFieldsInclusive(hash, newTime, diffVal) ==
    {f \in DOMAIN hash : newTime - f <= diffVal}
SWLiveFields(hash, newTime, diffVal) ==
    {f \in DOMAIN hash : newTime - f < diffVal}

SWBeforeCount(hash, newTime, diffVal) ==
    SumCounts(hash, SWLiveFields(hash, newTime, diffVal))

\* SlideWindowScript lines 99-109: the value returned.
SWResult(limitCount, beforeCount) ==
    IF limitCount <= beforeCount THEN 0 ELSE limitCount - beforeCount

\* The key's hash after the call: stale fields deleted, and on admission
\* HINCRBY key newTime 1.
SWHashAfterNoIncr(hash, limitCount, newTime, diffVal) ==
    [f \in SWLiveFields(hash, newTime, diffVal) |-> hash[f]]
SWHashAfterAlwaysIncr(hash, limitCount, newTime, diffVal) ==
    LET live == SWLiveFields(hash, newTime, diffVal)
    IN  [f \in live \cup {newTime} |->
            IF f = newTime THEN (IF f \in live THEN hash[f] ELSE 0) + 1 ELSE hash[f]]
SWHashAfter(hash, limitCount, newTime, diffVal) ==
    LET live   == SWLiveFields(hash, newTime, diffVal)
        before == SumCounts(hash, live)
    IN  IF limitCount <= before
        THEN [f \in live |-> hash[f]]
        ELSE [f \in live \cup {newTime} |->
                 IF f = newTime
                 THEN (IF f \in live THEN hash[f] ELSE 0) + 1
                 ELSE hash[f]]

EmptyHash == [f \in {} |-> 0]

\* SlideWindowScript lines 98-105: EXPIRE is issued only past the early return.
SWSetsExpireAlways(limitCount, beforeCount) == TRUE
SWSetsExpire(limitCount, beforeCount) == ~(limitCount <= beforeCount)

NoCall == [valid |-> FALSE, t |-> 0, ret |-> 0, before |-> <<>>, hash |-> EmptyHash,
           ttl |-> FALSE, expire |-> FALSE]

SWInit ==
    /\ \/ /\ swMode = "free"
          /\ swLimit \in 1..SWMaxLimit
          /\ swWindow \in 1..SWMaxWindow
       \/ /\ swMode = "example"
          /\ swLimit = 10
          /\ swWindow = 1
    /\ swHash = EmptyHash
    /\ swTTL = FALSE
    /\ swNow = 0
    /\ swCalls = 0
    /\ swMono = TRUE
    /\ swAdmitted = <<>>
    /\ swLast = NoCall

SWIdle ==
    /\ swMode = "idle"
    /\ swLimit = 0
    /\ swWindow = 0
    /\ swHash = EmptyHash
    /\ swTTL = FALSE
    /\ swNow = 0
    /\ swCalls = 0
    /\ swMono = TRUE
    /\ swAdmitted = <<>>
    /\ swLast = NoCall

\* The timestamps the next call may carry.
SWNextTimes ==
    IF swMode = "example"
    THEN IF swCalls < 10 THEN {100 * swCalls}
         ELSE IF swCalls = 10 THEN {950, 1100} ELSE {}
    ELSE IF swCalls = 0 THEN {0, 1}
         ELSE IF swCalls < SWMaxCalls
              THEN {t \in {swNow + d : d \in SWDeltas} : t >= 0}
              ELSE {}

\* One execution of SlideWindowScript with curTime = t.
SlideWindowCall(t) ==
    LET timeRange == SWTimeRange(swWindow)
        newTime   == SWNewTime(t, timeRange)
        diffVal   == SWDiffVal(timeRange)
        before    == SWBeforeCount(swHash, newTime, diffVal)
        result    == SWResult(swLimit, before)
    IN  /\ swHash' = SWHashAfter(swHash, swLimit, newTime, diffVal)
        \* EXPIRE on admission; a hash emptied by HDEL is removed with its expiration
        /\ swTTL' = IF SWSetsExpire(swLimit, before) THEN TRUE
                     ELSE (swTTL /\ DOMAIN swHash' # {})
        /\ swNow' = t
        /\ swCalls' = swCalls + 1
        /\ swMono' = (swMono /\ (swCalls = 0 \/ t >= swNow))
        /\ swAdmitted' = IF result > 0 THEN Append(swAdmitted, t) ELSE swAdmitted
        /\ swLast' = [valid |-> TRUE, t |-> t, ret |-> result,
                      before |-> swAdmitted, hash |-> swHash,
                      ttl |-> swTTL, expire |-> SWSetsExpire(swLimit, before)]
        /\ UNCHANGED <<swMode, swLimit, swWindow>>
        /\ SWFrame

SWCall == \E t \in SWNextTimes : SlideWindowCall(t)

\* The key's expiration elapses: the store deletes the hash.
SWExpire ==
    /\ swTTL
    /\ swHash' = EmptyHash
    /\ swTTL' = FALSE
    /\ swAdmitted' = <<>>
    /\ swLast' = [swLast EXCEPT !.valid = FALSE]
    /\ UNCHANGED <<swMode, swLimit, swWindow, swNow, swCalls, swMono>>
    /\ SWFrame

SWNext ==
    \/ SWCall
    \/ SWExpire

\* ---- claims on Sliding Window ----

\* Number of the admitted calls in `log` that lie in the live window of a call at t.
SWLiveAdmitted(log, t) ==
    LET timeRange == SWTimeRange(swWindow)
    IN  Cardinality({i \in 1..Len(log) :
            SWNewTime(t, timeRange) - SWNewTime(log[i], timeRange) < SWDiffVal(timeRange)})

SWCount(hash, f) == IF f \in DOMAIN hash THEN hash[f] ELSE 0

\* C3: with non-decreasing timestamps a call returns 0 iff the live sub-buckets hold
\* S >= limit admitted requests, and otherwise returns limit - S and increments the
\* current sub-bucket by one; with limit 10 and window 1 s, after ten admitted calls
\* at 0..900 ms the call at 950 ms is denied and the call at 1100 ms is admitted.
C3_SlideWindowDecision ==
    (swLast.valid /\ swMono) =>
        LET S  == SWLiveAdmitted(swLast.before, swLast.t)
            nt == SWNewTime(swLast.t, SWTimeRange(swWindow))
        IN  /\ (swLast.ret = 0) <=> (S >= swLimit)
            /\ S < swLimit =>
                  /\ swLast.ret = swLimit - S
                  /\ SWCount(swHash, nt) = SWCount(swLast.hash, nt) + 1
            /\ S >= swLimit => SWCount(swHash, nt) = SWCount(swLast.hash, nt)
            /\ (swMode = "example" /\ Len(swLast.before) = 10) =>
                  /\ swLast.t = 950 => swLast.ret = 0
                  /\ swLast.t = 1100 => swLast.ret > 0

\* C3 witness: the example's eleventh call at 950 ms, denied after ten admitted calls.
C3_Witness ==
    /\ swMode = "example"
    /\ swLast.valid
    /\ swLast.before = <<0, 100, 200, 300, 400, 500, 600, 700, 800, 900>>
    /\ swLast.t = 950
    /\ swLast.ret = 0

\* The example's other branch: the call at 1100 ms is admitted.
C3_WitnessRolled ==
    /\ swMode = "example"
    /\ swLast.valid
    /\ swLast.before = <<0, 100, 200, 300, 400, 500, 600, 700, 800, 900>>
    /\ swLast.t = 1100
    /\ swLast.ret = 2

SWLastNewTime == SWNewTime(swLast.t, SWTimeRange(swWindow))
SWSpan == SWDiffVal(SWTimeRange(swWindow))

\* C27: immediately after every Sliding Window call every stored sub-bucket f
\* satisfies newTime - f < diffVal for that call's time, and the stored counts sum
\* to at most the limit; while the timestamps have been non-decreasing no stored
\* sub-bucket lies after newTime and diffVal is at most 1000, so the key holds at
\* most 1000 sub-buckets.
C27_StoredSubBuckets ==
    swLast.valid =>
        /\ \A f \in DOMAIN swHash : SWLastNewTime - f < SWSpan
        /\ SumCounts(swHash, DOMAIN swHash) <= swLimit
        /\ swMono =>
              /\ \A f \in DOMAIN swHash : f <= SWLastNewTime
              /\ SWSpan <= ConstKeyCnt
              /\ Cardinality(DOMAIN swHash) <= ConstKeyCnt

\* C27 witness: a call with non-decreasing timestamps that deleted a stale
\* sub-bucket and left the key full: several sub-buckets whose counts sum to the limit.
C27_Witness ==
    /\ swLast.valid
    /\ swMono
    /\ DOMAIN swLast.hash \ DOMAIN swHash # {}
    /\ Cardinality(DOMAIN swHash) >= 2
    /\ SumCounts(swHash, DOMAIN swHash) = swLimit

\* Number of admitted calls whose timestamps lie in [from, from + timeRange).
SWAdmittedInSpan(from) ==
    Cardinality({j \in 1..Len(swAdmitted) :
        swAdmitted[j] >= from /\ swAdmitted[j] < from + SWTimeRange(swWindow)})

\* C36: whatever the order in which the store executes calls with client-supplied
\* timestamps, the admitted calls whose timestamps lie within any one window span
\* number at most limit.
C36_SkewedAdmissionsWithinLimit ==
    \A i \in 1..Len(swAdmitted) : SWAdmittedInSpan(swAdmitted[i]) <= swLimit

\* The same bound for the runs whose timestamps were non-decreasing.
C36_OrderedAdmissionsWithinLimit ==
    swMono => C36_SkewedAdmissionsWithinLimit

\* A call admitted with a timestamp earlier than that of the call before it.
C36_AdmittedOutOfOrder ==
    /\ swLast.valid
    /\ swLast.ret > 0
    /\ Len(swLast.before) >= 1
    /\ swLast.t < swLast.before[Len(swLast.before)]

(***************************************************************************)
(* Token Bucket                                                            *)
(***************************************************************************)
TBMaxTokens   == 2
TBMaxInterval == 1
TBMaxCalls    == 4

\* doTokenBucketLimiter lines 292-305: the procedure's arguments.
TBResetInterval(timeInterval) == timeInterval * 1000

TBIntervalPerPermit(maxTokens, resetBucketInterval) ==
    IF resetBucketInterval > maxTokens
    THEN CeilDiv(resetBucketInterval, maxTokens)
    ELSE 1

TBInitArg(initTokens, maxTokens) ==
    IF initTokens > maxTokens THEN maxTokens ELSE initTokens

TBReset == TBResetInterval(tbInterval)
TBIpp   == TBIntervalPerPermit(tbMax, TBReset)
TBInitTokens == TBInitArg(tbInit, tbMax)

\* TokenBucketScript line 153: the value returned by the initializing call.
TBFirstResultRaw(initTokens) == initTokens
TBFirstResult(initTokens) == Max(1, initTokens)

\* TokenBucketScript lines 162-194: the token count and the lastRefillTime computed
\* by a non-initial call before the decrement.
TBRefillNoCarry(last, tokens, curTime, ipp, maxTokens, reset, initTokens) ==
    IF curTime <= last
    THEN [tokens |-> tokens, last |-> last]
    ELSE LET since == curTime - last
         IN  IF since > reset
             THEN [tokens |-> initTokens, last |-> curTime]
             ELSE LET avail == since \div ipp
                  IN  [tokens |-> Min(avail + tokens, maxTokens),
                       last   |-> IF avail > 0 THEN curTime ELSE last]
TBRefill(last, tokens, curTime, ipp, maxTokens, reset, initTokens) ==
    IF curTime <= last
    THEN [tokens |-> tokens, last |-> last]
    ELSE LET since == curTime - last
         IN  IF since > reset
             THEN [tokens |-> initTokens, last |-> curTime]
             ELSE LET avail == since \div ipp
                  IN  [tokens |-> Min(avail + tokens, maxTokens),
                       last   |-> IF avail > 0 THEN curTime - (since % ipp) ELSE last]

\* TokenBucketScript lines 196-200: tokensRemaining is written only when a token is taken.
TBStoredTokensNoDecrement(stored, currentTokens) ==
    IF currentTokens > 0 THEN currentTokens ELSE stored
TBStoredTokens(stored, currentTokens) ==
    IF currentTokens > 0 THEN currentTokens - 1 ELSE stored

\* TokenBucketScript lines 196 and 202: tokensCount, captured before the decrement,
\* is the value returned.
TBReturnAfterDecrement(currentTokens) ==
    IF currentTokens > 0 THEN currentTokens - 1 ELSE currentTokens
TBReturn(currentTokens) == currentTokens

\* TokenBucketScript line 151: PEXPIRE key resetBucketInterval * 10.
TBExpiration(reset) == reset * 10

NoTBCall == [valid |-> FALSE, first |-> FALSE, t |-> 0, ret |-> 0,
             lastRefill |-> 0, tokens |-> 0, count |-> 0]

\* NewTokenBucketOption takes any int64 as initTokens; doTokenBucketLimiter only
\* lowers a value above maxTokens, so values below zero reach the procedure too.
TBInit ==
    /\ tbMax \in 1..TBMaxTokens
    /\ tbInterval \in 1..TBMaxInterval
    /\ tbInit \in (0 - 1)..(tbMax + 1)
    /\ tbExists = FALSE
    /\ tbLastRefill = 0
    /\ tbTokens = 0
    /\ tbTTL = 0
    /\ tbNow = 0
    /\ tbCalls = 0
    /\ tbMono = TRUE
    /\ tbExpired = FALSE
    /\ tbGrants = <<>>
    /\ tbInitTime = 0
    /\ tbMaxSince = 0
    /\ tbLast = NoTBCall

TBIdle ==
    /\ tbMax = 0
    /\ tbInterval = 0
    /\ tbInit = 0
    /\ tbExists = FALSE
    /\ tbLastRefill = 0
    /\ tbTokens = 0
    /\ tbTTL = 0
    /\ tbNow = 0
    /\ tbCalls = 0
    /\ tbMono = TRUE
    /\ tbExpired = FALSE
    /\ tbGrants = <<>>
    /\ tbInitTime = 0
    /\ tbMaxSince = 0
    /\ tbLast = NoTBCall

\* Steps (ms) by which the timestamp of the next call differs from the latest one.
TBDeltas == {0 - 1, 0, 1, TBIpp, TBReset, TBReset + 1}

TBNextTimes ==
    IF tbCalls = 0 THEN {0, 1}
    ELSE IF tbCalls < TBMaxCalls
         THEN {t \in {tbNow + d : d \in TBDeltas} : t >= 0}
         ELSE {}

\* TokenBucketScript lines 143-154: the key holds no bucket; initialize it.
TokenBucketFirstCall(t) ==
    /\ ~tbExists
    /\ tbExists' = TRUE
    /\ tbLastRefill' = t
    /\ tbTokens' = TBInitTokens
    /\ tbTTL' = TBExpiration(TBReset)
    /\ tbInitTime' = t
    /\ tbMaxSince' = t
    /\ tbGrants' = IF TBFirstResult(TBInitTokens) > 0 THEN Append(tbGrants, t) ELSE tbGrants
    /\ tbLast' = [valid |-> TRUE, first |-> TRUE, t |-> t,
                  ret |-> TBFirstResult(TBInitTokens),
                  lastRefill |-> 0, tokens |-> 0, count |-> TBInitTokens]

\* TokenBucketScript lines 156-202: refill, then take one token if there is one.
TokenBucketLaterCall(t) ==
    /\ tbExists
    /\ LET r == TBRefill(tbLastRefill, tbTokens, t, TBIpp, tbMax, TBReset, TBInitTokens)
       IN  /\ tbLastRefill' = r.last
           /\ tbTokens' = TBStoredTokens(tbTokens, r.tokens)
           /\ tbGrants' = IF TBReturn(r.tokens) > 0 THEN Append(tbGrants, t) ELSE tbGrants
           /\ tbLast' = [valid |-> TRUE, first |-> FALSE, t |-> t,
                         ret |-> TBReturn(r.tokens),
                         lastRefill |-> tbLastRefill, tokens |-> tbTokens,
                         count |-> r.tokens]
    /\ tbMaxSince' = Max(tbMaxSince, t)
    /\ UNCHANGED <<tbExists, tbTTL, tbInitTime>>

\* One execution of TokenBucketScript with curTime = t.
TBCall ==
    \E t \in TBNextTimes :
        /\ TokenBucketFirstCall(t) \/ TokenBucketLaterCall(t)
        /\ tbNow' = t
        /\ tbCalls' = tbCalls + 1
        /\ tbMono' = (tbMono /\ (tbCalls = 0 \/ t >= tbNow))
        /\ UNCHANGED <<tbMax, tbInterval, tbInit, tbExpired>>
        /\ TBFrame

\* The expiration set by PEXPIRE at initialization elapses: the store deletes the key.
TBExpire ==
    /\ tbExists
    /\ tbTTL > 0
    /\ tbTTL' = 0
    /\ tbExists' = FALSE
    /\ tbLastRefill' = 0
    /\ tbTokens' = 0
    /\ tbExpired' = TRUE
    /\ tbLast' = [tbLast EXCEPT !.valid = FALSE]
    /\ UNCHANGED <<tbMax, tbInterval, tbInit, tbNow, tbCalls, tbMono, tbGrants,
                   tbInitTime, tbMaxSince>>
    /\ TBFrame

TBNext ==
    \/ TBCall
    \/ TBExpire

\* C40: Token Bucket driven through Do() with maxTokens >= 1: the initTokens
\* argument passed to the procedure never exceeds maxTokens, and after every call the
\* stored tokensRemaining is an integer in [0, maxTokens] and the returned value is
\* in [0, maxTokens].
C40_TokensWithinBucket ==
    tbMax >= 1 =>
        /\ TBInitTokens <= tbMax
        /\ tbExists => tbTokens \in 0..tbMax
        /\ tbLast.valid => tbLast.ret \in 0..tbMax

\* C40 for configurations with initTokens >= 0.
C40_TokensWithinBucketNonNegativeInit ==
    (tbMax >= 1 /\ tbInit >= 0) =>
        /\ TBInitTokens <= tbMax
        /\ tbExists => tbTokens \in 0..tbMax
        /\ tbLast.valid => tbLast.ret \in 0..tbMax

\* A bucket initialized with initTokens < 0 holds a negative tokensRemaining.
C40_NegativeTokensStored ==
    /\ tbMax >= 1
    /\ tbInit < 0
    /\ tbExists
    /\ tbTokens < 0

\* A hard reset with initTokens < 0 returned a negative value.
C40_NegativeReturned ==
    /\ tbMax >= 1
    /\ tbLast.valid
    /\ ~tbLast.first
    /\ tbLast.ret < 0

\* ---- Token Bucket polled once per millisecond ----
\* Number of intervalPerPermit periods polled after the initializing call.
TBPollPeriods == 2

\* maxTokens of the polled buckets with timeInterval = 1 s: intervalPerPermit is
\* 200 ms and 10 ms (the parameters of TestLimiter_TokenBucketLimiter_1 and _3),
\* and 4, 3, 2 and 1 ms.
TBPollMaxTokens == {5, 100, 250, 334, 500, 1000}

TBPollInit ==
    /\ tbMax \in TBPollMaxTokens
    /\ tbInterval = 1
    /\ tbInit = 0
    /\ tbExists = FALSE
    /\ tbLastRefill = 0
    /\ tbTokens = 0
    /\ tbTTL = 0
    /\ tbNow = 0
    /\ tbCalls = 0
    /\ tbMono = TRUE
    /\ tbExpired = FALSE
    /\ tbGrants = <<>>
    /\ tbInitTime = 0
    /\ tbMaxSince = 0
    /\ tbLast = NoTBCall

\* The timestamp of the next poll: one millisecond after the latest one.  The polls
\* end TBPollPeriods periods after the initializing call, long before the
\* expiration of 10 * resetBucketInterval set by that call.
TBPollTimes ==
    IF tbCalls = 0 THEN {0, 1}
    ELSE IF tbNow < tbInitTime + TBPollPeriods * TBIpp THEN {tbNow + 1} ELSE {}

\* One execution of TokenBucketScript by the poller.
TBPoll ==
    \E t \in TBPollTimes :
        /\ TokenBucketFirstCall(t) \/ TokenBucketLaterCall(t)
        /\ tbNow' = t
        /\ tbCalls' = tbCalls + 1
        /\ tbMono' = (tbMono /\ (tbCalls = 0 \/ t >= tbNow))
        /\ UNCHANGED <<tbMax, tbInterval, tbInit, tbExpired>>
        /\ TBFrame

TBPollNext == TBPoll

\* ---- claims on Token Bucket ----

\* Number of granted calls with a timestamp in [from, from + length).
TBGrantedIn(from, length) ==
    Cardinality({i \in 1..Len(tbGrants) : tbGrants[i] >= from /\ tbGrants[i] < from + length})

\* C4: with non-decreasing timestamps (and the key not expired), no interval of
\* length resetInterval holds more than maxTokens granted calls.
C4_GrantsPerResetInterval ==
    (tbMono /\ ~tbExpired) =>
        \A i \in 1..Len(tbGrants) : TBGrantedIn(tbGrants[i], TBReset) <= tbMax

\* C4 without the initializing call, which returns max(1, initTokens) without taking
\* a token: the bound fails for the token-taking calls alone.
C4_GrantsAfterInit ==
    (tbMono /\ ~tbExpired) =>
        \A i \in 2..Len(tbGrants) :
            Cardinality({j \in 2..Len(tbGrants) :
                tbGrants[j] >= tbGrants[i] /\ tbGrants[j] < tbGrants[i] + TBReset}) <= tbMax

\* C5: the initializing call stores lastRefillTime = its time and tokensRemaining =
\* initTokens, sets the expiration to 10 * resetInterval and returns
\* max(1, initTokens); with initTokens = 0, every later call made while less than
\* intervalPerPermit has elapsed since the initialization returns 0.
C5_TokenBucketFirstCall ==
    /\ (tbLast.valid /\ tbLast.first) =>
          /\ tbExists
          /\ tbLastRefill = tbLast.t
          /\ tbTokens = TBInitTokens
          /\ tbLast.ret = IF TBInitTokens >= 1 THEN TBInitTokens ELSE 1
          /\ tbTTL = 10 * TBReset
    /\ (tbLast.valid /\ ~tbLast.first /\ TBInitTokens = 0
          /\ tbMaxSince - tbInitTime < TBIpp) => tbLast.ret = 0

\* C5 witness: a bucket initialized with initTokens = 0 was polled again, at a later
\* time within the first intervalPerPermit, and the call was denied.
C5_Witness ==
    /\ tbLast.valid /\ ~tbLast.first
    /\ TBInitTokens = 0
    /\ tbLast.t > tbInitTime
    /\ tbMaxSince - tbInitTime < TBIpp
    /\ tbLast.ret = 0

\* The latest call was a non-initial call; the time elapsed since the lastRefillTime
\* it found, and the whole permits that time is worth.
TBLaterCall == tbLast.valid /\ ~tbLast.first
TBElapsed   == tbLast.t - tbLast.lastRefill
TBPermits   == TBElapsed \div TBIpp

\* C28: on a non-initial Token Bucket call with elapsed = now - lastRefillTime:
\* if elapsed <= 0 no token is added and lastRefillTime is unchanged; if
\* 0 < elapsed <= resetInterval, floor(elapsed / intervalPerPermit) tokens are added
\* (the total capped at maxTokens) and lastRefillTime advances by exactly
\* floor(elapsed / intervalPerPermit) * intervalPerPermit, so the remainder is
\* carried over and the call does not move lastRefillTime past now.
C28_RefillAccounting ==
    TBLaterCall =>
        /\ TBElapsed <= 0 =>
              /\ tbLast.count = tbLast.tokens
              /\ tbLastRefill = tbLast.lastRefill
        /\ (0 < TBElapsed /\ TBElapsed <= TBReset) =>
              /\ tbLast.count = Min(tbLast.tokens + TBPermits, tbMax)
              /\ tbLastRefill = tbLast.lastRefill + TBPermits * TBIpp
              /\ tbLastRefill <= tbLast.t
              /\ tbLast.t - tbLastRefill < TBIpp
        /\ tbLastRefill <= Max(tbLast.lastRefill, tbLast.t)

\* C28 witness: a call that added a permit and carried a remainder: the elapsed time
\* is within resetInterval, is worth at least one permit and is not a multiple of
\* intervalPerPermit, so lastRefillTime advanced to a time before now.
C28_Witness ==
    /\ TBLaterCall
    /\ 0 < TBElapsed /\ TBElapsed <= TBReset
    /\ TBPermits >= 1
    /\ TBElapsed % TBIpp # 0
    /\ tbLastRefill > tbLast.lastRefill
    /\ tbLastRefill < tbLast.t

\* C28 witness for the other branch: a call carrying a timestamp before
\* lastRefillTime, on a bucket that holds a token.
C28_WitnessBackward ==
    /\ TBLaterCall
    /\ TBElapsed < 0
    /\ tbLast.tokens >= 1

\* C29: on a non-initial Token Bucket call with now - lastRefillTime >
\* resetInterval the token count is set to initTokens (what the bucket held is
\* discarded), lastRefillTime becomes now, the call returns initTokens and the
\* tokensRemaining stored afterwards is max(0, initTokens - 1), also for
\* initTokens = 0.
C29_HardReset ==
    (TBLaterCall /\ TBElapsed > TBReset) =>
        /\ tbLast.count = TBInitTokens
        /\ tbLast.ret = TBInitTokens
        /\ tbLastRefill = tbLast.t
        /\ tbTokens = Max(0, TBInitTokens - 1)

\* C29 restricted to initTokens >= 1, the case in which the script writes
\* tokensRemaining after the reset.
C29_HardResetPositiveInit ==
    (TBLaterCall /\ TBElapsed > TBReset /\ TBInitTokens >= 1) =>
        /\ tbLast.ret = TBInitTokens
        /\ tbLastRefill = tbLast.t
        /\ tbTokens = TBInitTokens - 1

\* A hard reset with initTokens = 0 on a bucket that held a token.
C29_ResetOnHeldTokens ==
    /\ TBLaterCall /\ TBElapsed > TBReset
    /\ TBInitTokens = 0
    /\ tbLast.tokens >= 1

\* C30: on every non-initial Token Bucket call the value returned is the token
\* count computed before the decrement; when it is 0 the stored tokensRemaining is
\* left as it was, and when it is positive the stored tokensRemaining equals the
\* value returned minus one.
C30_ReturnIsPreDecrementCount ==
    TBLaterCall =>
        /\ tbLast.ret = tbLast.count
        /\ tbLast.ret = 0 => tbTokens = tbLast.tokens
        /\ tbLast.ret > 0 => tbTokens = tbLast.ret - 1

\* C30 witnesses: a granted call that found the bucket holding less than it
\* returned (a refill preceded the decrement), and a denied call.
C30_Witness ==
    /\ TBLaterCall
    /\ tbLast.ret >= 2
    /\ tbLast.tokens < tbLast.ret
    /\ tbTokens = tbLast.ret - 1

C30_WitnessDenied ==
    /\ TBLaterCall
    /\ tbLast.ret = 0
    /\ tbTokens = tbLast.tokens

\* C33: a Token Bucket with initTokens = 0 and intervalPerPermit <= resetInterval,
\* polled once per millisecond: consecutive granted calls (the initializing call
\* included) are exactly intervalPerPermit apart, and no span of intervalPerPermit
\* milliseconds holds more than one granted call.
C33_OneGrantPerPermitInterval ==
    (TBInitTokens = 0 /\ TBIpp <= TBReset) =>
        /\ \A k \in 1..(Len(tbGrants) - 1) : tbGrants[k + 1] - tbGrants[k] = TBIpp
        /\ \A a \in 0..tbNow : TBGrantedIn(a, TBIpp) <= 1
        /\ (tbCalls >= 1 /\ tbNow >= tbInitTime + TBIpp) => Len(tbGrants) >= 2

\* C33 witness: the bucket of TestLimiter_TokenBucketLimiter_1 (maxTokens 5,
\* intervalPerPermit 200 ms) polled for two periods: three grants, 200 ms apart.
C33_Witness ==
    /\ tbMax = 5 /\ TBIpp = 200
    /\ Len(tbGrants) = 3
    /\ tbGrants[2] = tbGrants[1] + 200
    /\ tbGrants[3] = tbGrants[2] + 200
    /\ tbCalls = 401

(***************************************************************************)
(* Leaky Bucket                                                            *)
(***************************************************************************)
LBMaxCapacity == 2
LBMaxRate     == 2
LBInstances   == 2
LBTicksPerSec == 2
LBMaxTicks    == 3
LBMaxCalls    == 3

LBInsts == 1..LBInstances

\* time.Time.Unix(): whole seconds of a time given in ticks.
Unix(tick) == tick \div LBTicksPerSec

\* LeakyBucketScript lines 253-259: the water left after leaking.
LBLeakedWater(elapsedTime, leakRate) == elapsedTime * leakRate

LBNewWaterNoLeak(currentWater, lastLeakTime, curTime, leakRate) ==
    Max(0, currentWater)
LBNewWater(currentWater, lastLeakTime, curTime, leakRate) ==
    Max(0, currentWater - LBLeakedWater(curTime - lastLeakTime, leakRate))

\* LeakyBucketScript line 268: the admission test.
LBAdmitsInclusive(newWater, capacity) == newWater <= capacity
LBAdmits(newWater, capacity) == newWater < capacity

\* LeakyBucketScript lines 262-271: HMSET stores newWater on every call; HINCRBY adds
\* one on admission.
LBStoredWaterOnAdmit(currentWater, newWater, capacity) ==
    IF LBAdmits(newWater, capacity) THEN newWater + 1 ELSE currentWater
LBStoredWater(currentWater, newWater, capacity) ==
    IF LBAdmits(newWater, capacity) THEN newWater + 1 ELSE newWater

\* doLeakyBucketLimiter line 333: the curTime argument is the instance's currentTime,
\* captured by NewRateLimiter.
LBCurTimeAtCall(i) == Unix(lbTick)
LBCurTime(i) == lbInst[i].ctime

NoInstance == [made |-> FALSE, ctime |-> 0, calls |-> 0, passed |-> 0]

LBInit ==
    /\ lbCapacity \in 1..LBMaxCapacity
    /\ lbLeakRate \in 0..LBMaxRate
    /\ lbExists = FALSE
    /\ lbWater = 0
    /\ lbLastLeak = 0
    /\ lbTick = 0
    /\ lbInst = [i \in LBInsts |-> NoInstance]
    /\ lbLog = <<>>

LBIdle ==
    /\ lbCapacity = 0
    /\ lbLeakRate = 0
    /\ lbExists = FALSE
    /\ lbWater = 0
    /\ lbLastLeak = 0
    /\ lbTick = 0
    /\ lbInst = <<>>
    /\ lbLog = <<>>

\* Real time passes.
LBTick ==
    /\ lbTick < LBMaxTicks
    /\ lbTick' = lbTick + 1
    /\ UNCHANGED <<lbCapacity, lbLeakRate, lbExists, lbWater, lbLastLeak, lbInst, lbLog>>
    /\ LBFrame

\* NewRateLimiter: a new instance; currentTime = time.Now().  The instances are
\* numbered in the order of their construction.
LBNewRateLimiter(i) ==
    /\ ~lbInst[i].made
    /\ IF i = 1 THEN TRUE ELSE lbInst[i - 1].made
    /\ lbInst' = [lbInst EXCEPT ![i] =
                    [made |-> TRUE, ctime |-> Unix(lbTick), calls |-> 0, passed |-> 0]]
    /\ UNCHANGED <<lbCapacity, lbLeakRate, lbExists, lbWater, lbLastLeak, lbTick, lbLog>>
    /\ LBFrame

\* One execution of LeakyBucketScript with the given curTime; `result` is its value.
LeakyBucketCall(curTime, result) ==
    LET currentWater == IF lbExists THEN lbWater ELSE 0
        lastLeakTime == IF lbExists THEN lbLastLeak ELSE curTime
        newWater     == LBNewWater(currentWater, lastLeakTime, curTime, lbLeakRate)
    IN  /\ result = IF LBAdmits(newWater, lbCapacity) THEN 1 ELSE 0
        /\ lbExists' = TRUE
        /\ lbWater' = LBStoredWater(currentWater, newWater, lbCapacity)
        /\ lbLastLeak' = curTime
        /\ lbLog' = Append(lbLog, [tick |-> lbTick, ts |-> curTime, ret |-> result,
                                   fresh |-> ~lbExists, water |-> currentWater,
                                   last |-> lastLeakTime])

\* Do() on a Leaky Bucket instance: the invocation succeeds and Do() returns the
\* script's value.
LBDo(i) ==
    /\ lbInst[i].made
    /\ Len(lbLog) < LBMaxCalls
    /\ \E result \in {0, 1} :
          /\ LeakyBucketCall(LBCurTime(i), result)
          /\ lbInst' = [lbInst EXCEPT ![i].calls = @ + 1, ![i].passed = @ + result]
    /\ UNCHANGED <<lbCapacity, lbLeakRate, lbTick>>
    /\ LBFrame

\* Do() fails with a store error after the store executed the script (the reply is
\* lost, the context expires): Do() returns (0, err).
LBDoFails(i) ==
    /\ lbInst[i].made
    /\ Len(lbLog) < LBMaxCalls
    /\ \E result \in {0, 1} : LeakyBucketCall(LBCurTime(i), result)
    /\ lbInst' = [lbInst EXCEPT ![i].calls = @ + 1]
    /\ UNCHANGED <<lbCapacity, lbLeakRate, lbTick>>
    /\ LBFrame

LBNext ==
    \/ LBTick
    \/ \E i \in LBInsts : LBNewRateLimiter(i)
    \/ \E i \in LBInsts : LBDo(i)
    \/ \E i \in LBInsts : LBDoFails(i)

\* ---- claims on Leaky Bucket ----

\* Every executed call carried the time at which it was made.
LBHonest == \A k \in 1..Len(lbLog) : lbLog[k].ts = Unix(lbLog[k].tick)

\* The executed calls carried non-decreasing timestamps.
LBMonotone == \A k \in 1..Len(lbLog) - 1 : lbLog[k].ts <= lbLog[k + 1].ts

\* At most leakRate calls in any one second of real time.
LBRateWithin ==
    \A k \in 1..Len(lbLog) :
        Cardinality({j \in 1..Len(lbLog) :
            lbLog[j].tick >= lbLog[k].tick /\ lbLog[j].tick < lbLog[k].tick + LBTicksPerSec})
          <= lbLeakRate

\* C6: whatever timestamps the calls carry, in whatever order, the stored water
\* level is >= 0 and <= capacity + 1.
C6_WaterBounds ==
    /\ lbWater >= 0
    /\ lbWater <= lbCapacity + 1

\* C7 as claimed: capacity >= 1, leakRate >= 1, timestamps true, at most leakRate
\* calls in any one second: every call is admitted.
C7_AdmittedBelowRate ==
    (lbCapacity >= 1 /\ lbLeakRate >= 1 /\ LBHonest /\ LBRateWithin) =>
        \A k \in 1..Len(lbLog) : lbLog[k].ret = 1

\* C7 amended: the same with capacity >= leakRate >= 1 (the bucket holds the burst
\* of up to leakRate calls that one second may carry).
C7_AdmittedBelowRateWithRoom ==
    (lbCapacity >= lbLeakRate /\ lbLeakRate >= 1 /\ LBHonest /\ LBRateWithin) =>
        \A k \in 1..Len(lbLog) : lbLog[k].ret = 1

\* C7 witness: leakRate calls within one second and another call in a later second,
\* all of them admitted, with capacity >= leakRate >= 2.
C7_Witness ==
    /\ lbCapacity >= lbLeakRate /\ lbLeakRate >= 2
    /\ LBHonest /\ LBRateWithin
    /\ Len(lbLog) >= 3
    /\ lbLog[1].ts = lbLog[2].ts
    /\ lbLog[Len(lbLog)].ts > lbLog[1].ts
    /\ \A k \in 1..Len(lbLog) : lbLog[k].ret = 1

\* C8: with non-decreasing timestamps, the calls admitted between two calls whose
\* timestamps are T seconds apart number at most capacity + leakRate * T.
C8_AdmissionRateBound ==
    LBMonotone =>
        \A a, b \in 1..Len(lbLog) :
            a <= b =>
                Cardinality({k \in a..b : lbLog[k].ret = 1})
                    <= lbCapacity + lbLeakRate * (lbLog[b].ts - lbLog[a].ts)

\* C8 witness: a full bucket denied a call and admitted one again after a second.
C8_Witness ==
    /\ LBMonotone
    /\ lbLeakRate >= 1
    /\ \E a, b \in 1..Len(lbLog) :
          /\ a < b
          /\ lbLog[a].ret = 0
          /\ lbLog[b].ret = 1
          /\ lbLog[b].ts > lbLog[a].ts

LBLatest  == lbLog[Len(lbLog)]
LBElapsed == LBLatest.ts - LBLatest.last
LBLeft    == IF LBLatest.water - LBElapsed * lbLeakRate > 0
             THEN LBLatest.water - LBElapsed * lbLeakRate
             ELSE 0

\* C31: every Leaky Bucket call, admitted or denied, stores lastLeakTime = its time
\* and the water max(0, water - elapsed * leakRate); it returns 1 iff that water
\* is < capacity and only then stores one more; the first call on a fresh key leaks
\* nothing.
C31_LeakThenAdmit ==
    Len(lbLog) > 0 =>
        /\ lbExists
        /\ lbLastLeak = LBLatest.ts
        /\ (LBLatest.ret = 1) <=> (LBLeft < lbCapacity)
        /\ LBLatest.ret = 1 => lbWater = LBLeft + 1
        /\ LBLatest.ret = 0 => lbWater = LBLeft
        /\ LBLatest.fresh => (LBElapsed = 0 /\ LBLatest.water = 0 /\ LBLeft = 0)

\* C31 witness: a denied call that leaked: it found the bucket over capacity after
\* time had passed, stored less water than it found, and moved lastLeakTime.
C31_Witness ==
    /\ Len(lbLog) > 0
    /\ LBLatest.ret = 0
    /\ LBElapsed > 0
    /\ lbWater < LBLatest.water
    /\ lbLastLeak > LBLatest.last

\* C31 witness for admission after a leak.
C31_WitnessAdmitted ==
    /\ Len(lbLog) > 0
    /\ LBLatest.ret = 1
    /\ ~LBLatest.fresh
    /\ LBElapsed > 0
    /\ LBLeft < LBLatest.water

(***************************************************************************)
(* Key derivation                                                          *)
(***************************************************************************)
KSMaxTime == 1
KSMaxSeed == 2
KSMaxUnit == 2
KSMaxCalls == 2

\* The claims on key derivation compare two limiter instances.
KSInsts == {1, 2}

RedisKeyPrefix    == "dlimiter"
MaxBucketCapacity == 5000

FixedWindowType == "FixedWindow"
SlideWindowType == "SlideWindow"
TokenBucketType == "TokenBucket"
LeakyBucketType == "LeakyBucket"
LimiterTypes == {FixedWindowType, SlideWindowType, TokenBucketType, LeakyBucketType}

\* Product names are free text; the second one holds the key separator.
KSProducts == {"test", "test::0"}
\* Limit magnitudes around the sharding threshold.
KSLimits == {MaxBucketCapacity, MaxBucketCapacity + 1, 2 * MaxBucketCapacity + 1}
KSUnits  == 0..KSMaxUnit

\* The fields of Options that genLimiterKey reads.
ZeroOptions == [fwLimit |-> 0, fwUnit |-> 0, swLimit |-> 0, tbMax |-> 0, lbRate |-> 0]

NewFixedWindowOption(limitCount, unitTime) ==
    [ZeroOptions EXCEPT !.fwLimit = limitCount, !.fwUnit = unitTime]
\* NewSlideWindowOption fills fixedWindowOptions (lines 99-106).
NewSlideWindowOption(limitCount, unitTime) ==
    [ZeroOptions EXCEPT !.fwLimit = limitCount, !.fwUnit = unitTime]
NewTokenBucketOption(maxTokens) == [ZeroOptions EXCEPT !.tbMax = maxTokens]
NewLeakyBucketOption(leakRate) == [ZeroOptions EXCEPT !.lbRate = leakRate]

\* The options a caller may build for an instance of the given type.
KSOptionsFor(type) ==
    CASE type = FixedWindowType ->
            {NewFixedWindowOption(l, u) : l \in KSLimits, u \in KSUnits}
      [] type = SlideWindowType ->
            {NewSlideWindowOption(l, 1) : l \in KSLimits}
      [] type = TokenBucketType ->
            {NewTokenBucketOption(l) : l \in KSLimits}
      [] type = LeakyBucketType ->
            {NewLeakyBucketOption(l) : l \in KSLimits}

\* genLimiterKey lines 384-395: the limit magnitude of an instance.
KSLimitCount(type, opts) ==
    CASE type = FixedWindowType -> opts.fwLimit
      [] type = SlideWindowType -> opts.swLimit
      [] type = TokenBucketType -> opts.tbMax
      [] type = LeakyBucketType -> opts.lbRate

\* genLimiterKey line 388: cast.ToString(math.Floor(float64(unix) / float64(unitTime))).
\* A float64 division by zero gives +Inf, or NaN for 0/0.
KSTimeSuffixNoPeriod(unix, unitTime) ==
    IF unitTime = 0
    THEN IF unix = 0 THEN "NaN" ELSE "+Inf"
    ELSE ToString(unix)
KSTimeSuffix(unix, unitTime) ==
    IF unitTime = 0
    THEN IF unix = 0 THEN "NaN" ELSE "+Inf"
    ELSE ToString(unix \div unitTime)

\* genLimiterKey lines 398-402: the shard index.
KSModUnguarded(limitCount, seed) ==
    seed % ((limitCount \div MaxBucketCapacity) + 1)
KSMod(limitCount, seed) ==
    IF limitCount > MaxBucketCapacity
    THEN seed % CeilDiv(limitCount, MaxBucketCapacity)
    ELSE 0

\* genLimiterKey: the key of an instance; seed = time.Now().Nanosecond().
GenLimiterKeyNoType(type, product, opts, unix, seed) ==
    LET mod     == KSMod(KSLimitCount(type, opts), seed)
        suffix0 == IF type = FixedWindowType THEN KSTimeSuffix(unix, opts.fwUnit) ELSE ""
        suffix  == IF suffix0 = "" THEN ToString(mod)
                   ELSE suffix0 \o "::" \o ToString(mod)
    IN  RedisKeyPrefix \o "::" \o product \o "::" \o suffix
GenLimiterKey(type, product, opts, unix, seed) ==
    LET mod     == KSMod(KSLimitCount(type, opts), seed)
        suffix0 == IF type = FixedWindowType THEN KSTimeSuffix(unix, opts.fwUnit) ELSE ""
        suffix  == IF suffix0 = "" THEN ToString(mod)
                   ELSE suffix0 \o "::" \o ToString(mod)
    IN  RedisKeyPrefix \o "::" \o type \o "::" \o product \o "::" \o suffix

\* time.Time.UnixMilli() and time.Time.Unix() of a time given in whole seconds.
KSUnixMilli(t) == t * 1000
KSUnix(t) == t

\* doSlideWindowLimiter line 271, doTokenBucketLimiter line 309,
\* doLeakyBucketLimiter line 333: the current-time argument is read from
\* r.currentTime (ctime); now is the time of the call.  Fixed Window sends none.
KSCurTimeArgAtCall(type, ctime, now) ==
    CASE type = SlideWindowType -> KSUnixMilli(now)
      [] type = TokenBucketType -> KSUnixMilli(now)
      [] type = LeakyBucketType -> KSUnix(now)
      [] type = FixedWindowType -> 0 - 1
KSCurTimeArg(type, ctime, now) ==
    CASE type = SlideWindowType -> KSUnixMilli(ctime)
      [] type = TokenBucketType -> KSUnixMilli(ctime)
      [] type = LeakyBucketType -> KSUnix(ctime)
      [] type = FixedWindowType -> 0 - 1

\* initOptions lines 208-211: a user-supplied key has priority; a key is derived
\* only while the instance has none.
KSKeyAtDoAlways(current, fresh) == fresh
KSKeyAtDo(current, fresh) ==
    IF Len(current) = 0 THEN fresh ELSE current

\* WithRedisKey lines 168-174: only a non-empty key is taken.
KSKeyAfterWithAny(current, key) == key
KSKeyAfterWith(current, key) ==
    IF Len(key) > 0 THEN key ELSE current

\* Keys a caller passes to WithRedisKey.
KSCustomKeys == {"", "test_test_123456789"}

\* redisKey, opts, ctime are the instance's fields.  History kept per instance:
\* custom = last non-empty key given to WithRedisKey, first = key derived by the
\* instance's first derivation (with seed and options dopts), used = key of the
\* last Do(), ucustom = custom at the last Do(), calls = number of Do() calls,
\* sent = current-time argument of the last Do(), sent1 = that of the first Do(),
\* dnow = real time of the last Do() that was not the instance's first.
NoKSInstance ==
    [made |-> FALSE, type |-> "", product |-> "", opts |-> ZeroOptions, ctime |-> 0,
     redisKey |-> "", derived |-> FALSE, seed |-> 0, dopts |-> ZeroOptions,
     custom |-> "", first |-> "", used |-> "", ucustom |-> "", calls |-> 0,
     sent |-> 0 - 1, sent1 |-> 0 - 1, dnow |-> 0]

KSInit ==
    /\ ksNow = 0
    /\ ksInst = [i \in KSInsts |-> NoKSInstance]
    /\ ksTouched = {}

KSIdle ==
    /\ ksNow = 0
    /\ ksInst = <<>>
    /\ ksTouched = {}

\* Real time passes.
KSTick ==
    /\ ksNow < KSMaxTime
    /\ ksNow' = ksNow + 1
    /\ UNCHANGED <<ksInst, ksTouched>>
    /\ KSFrame

\* NewRateLimiter(product, type, opts): currentTime = time.Now().
KSNewRateLimiter(i) ==
    /\ ~ksInst[i].made
    /\ IF i = 1 THEN TRUE ELSE ksInst[i - 1].made
    /\ \E type \in LimiterTypes, product \in KSProducts :
         \E opts \in KSOptionsFor(type) :
            ksInst' = [ksInst EXCEPT ![i] =
                [NoKSInstance EXCEPT !.made = TRUE, !.type = type, !.product = product,
                                     !.opts = opts, !.ctime = ksNow]]
    /\ UNCHANGED <<ksNow, ksTouched>>
    /\ KSFrame

\* WithOption(opt): replaces the options of the instance.
KSWithOption(i) ==
    /\ ksInst[i].made
    /\ ksInst[i].calls >= 1
    /\ ksInst[i].calls < KSMaxCalls
    /\ \E opts \in KSOptionsFor(ksInst[i].type) :
          /\ opts # ksInst[i].opts
          /\ ksInst' = [ksInst EXCEPT ![i].opts = opts]
    /\ UNCHANGED <<ksNow, ksTouched>>
    /\ KSFrame

\* WithRedisKey(key).
KSWithRedisKey(i) ==
    /\ ksInst[i].made
    /\ \E key \in KSCustomKeys :
          /\ ksInst' = [ksInst EXCEPT
                ![i].redisKey = KSKeyAfterWith(ksInst[i].redisKey, key),
                ![i].derived  = IF Len(key) > 0 THEN FALSE ELSE ksInst[i].derived,
                ![i].custom   = IF Len(key) > 0 THEN key ELSE ksInst[i].custom]
          /\ ksInst' # ksInst
    /\ UNCHANGED <<ksNow, ksTouched>>
    /\ KSFrame

\* Do(): initOptions fixes the key, then the procedure of the instance's type runs
\* on r.redisKey.  seed = time.Now().Nanosecond() at the call.
KSDo(i) ==
    /\ ksInst[i].made
    /\ ksInst[i].calls < KSMaxCalls
    /\ \E seed \in 0..KSMaxSeed :
          LET r     == ksInst[i]
              fresh == GenLimiterKey(r.type, r.product, r.opts, r.ctime, seed)
              key   == KSKeyAtDo(r.redisKey, fresh)
              gen   == Len(r.redisKey) = 0
          IN  /\ ksInst' = [ksInst EXCEPT
                    ![i].redisKey = key,
                    ![i].derived  = IF gen THEN TRUE ELSE r.derived,
                    ![i].seed     = IF gen THEN seed ELSE r.seed,
                    ![i].dopts    = IF gen THEN r.opts ELSE r.dopts,
                    ![i].first    = IF gen /\ Len(r.first) = 0 THEN fresh ELSE r.first,
                    ![i].used     = key,
                    ![i].ucustom  = r.custom,
                    ![i].calls    = r.calls + 1,
                    ![i].sent     = KSCurTimeArg(r.type, r.ctime, ksNow),
                    ![i].sent1    = IF r.calls = 0
                                    THEN KSCurTimeArg(r.type, r.ctime, ksNow)
                                    ELSE r.sent1,
                    ![i].dnow     = IF r.calls >= 1 THEN ksNow ELSE r.dnow]
              /\ ksTouched' = ksTouched \cup
                    {[key |-> key, type |-> r.type, custom |-> Len(r.custom) > 0]}
    /\ UNCHANGED ksNow
    /\ KSFrame

\* The first Do() of an instance.
KSFirstDo(i) ==
    /\ ksInst[i].calls = 0
    /\ KSDo(i)

\* WithRedisKey on an instance that has not been called yet.
KSFirstWithRedisKey(i) ==
    /\ ksInst[i].calls = 0
    /\ KSWithRedisKey(i)

\* Two instances, each constructed once and called once.
KSNext ==
    \/ KSTick
    \/ \E i \in KSInsts : KSNewRateLimiter(i)
    \/ \E i \in KSInsts : KSFirstWithRedisKey(i)
    \/ \E i \in KSInsts : KSFirstDo(i)

\* One instance reused for a series of Do() calls.
KSLifeNext ==
    \/ KSTick
    \/ KSNewRateLimiter(1)
    \/ KSWithOption(1)
    \/ KSWithRedisKey(1)
    \/ KSDo(1)

\* ---- claims on key derivation ----

\* Two instances of the same type and product whose construction times lie in the
\* same window period (Fixed Window only).
KSSameQuota(a, b) ==
    /\ a.type = b.type
    /\ a.product = b.product
    /\ a.type = FixedWindowType =>
          /\ a.dopts.fwUnit >= 1
          /\ a.dopts.fwUnit = b.dopts.fwUnit
          /\ a.ctime \div a.dopts.fwUnit = b.ctime \div b.dopts.fwUnit

\* C10: two instances of the same type and product, with limit magnitudes <= 5000
\* and (Fixed Window) construction times in the same window period, derive the
\* same key whatever seeds their derivations drew.
C10_KeyDeterministicBelowThreshold ==
    \A i, j \in KSInsts :
        (/\ ksInst[i].derived /\ ksInst[j].derived
         /\ KSSameQuota(ksInst[i], ksInst[j])
         /\ KSLimitCount(ksInst[i].type, ksInst[i].dopts) <= MaxBucketCapacity
         /\ KSLimitCount(ksInst[j].type, ksInst[j].dopts) <= MaxBucketCapacity)
        => ksInst[i].redisKey = ksInst[j].redisKey

\* C10 witness: two Fixed Window instances with limit 5000, constructed at different
\* times of one window period, derived the same key under different seeds.
C10_Witness ==
    /\ ksInst[1].derived /\ ksInst[2].derived
    /\ ksInst[1].type = FixedWindowType
    /\ KSSameQuota(ksInst[1], ksInst[2])
    /\ ksInst[1].dopts.fwLimit = MaxBucketCapacity
    /\ ksInst[2].dopts.fwLimit = MaxBucketCapacity
    /\ ksInst[1].ctime # ksInst[2].ctime
    /\ ksInst[1].seed # ksInst[2].seed
    /\ ksInst[1].redisKey = ksInst[2].redisKey
    /\ ksInst[1].redisKey = "dlimiter::FixedWindow::test::0::0"

\* C11: instances of different algorithm types never hold the same derived key, and
\* no key reached without a caller-supplied key has been touched by the procedures
\* of two different types.
C11_NoCrossTypeKey ==
    /\ \A i, j \in KSInsts :
          (ksInst[i].derived /\ ksInst[j].derived /\ ksInst[i].type # ksInst[j].type)
              => ksInst[i].redisKey # ksInst[j].redisKey
    /\ \A a, b \in ksTouched :
          (~a.custom /\ ~b.custom /\ a.type # b.type) => a.key # b.key

\* C11 witness: a Sliding Window instance of product "test::0" and a Fixed Window
\* instance of product "test" have both run; their keys differ in the type only.
C11_Witness ==
    /\ [key |-> "dlimiter::SlideWindow::test::0::0", type |-> SlideWindowType,
        custom |-> FALSE] \in ksTouched
    /\ [key |-> "dlimiter::FixedWindow::test::0::0", type |-> FixedWindowType,
        custom |-> FALSE] \in ksTouched

\* C12: the key of an instance is the last non-empty key given to WithRedisKey if
\* there is one, else the key derived by its first Do(); every Do() used the key so
\* determined at the time of the call, and the derived key is never replaced by a
\* new derivation.
C12_KeyFixedForInstance ==
    \A i \in KSInsts :
        LET r == ksInst[i] IN
        /\ Len(r.custom) > 0 => r.redisKey = r.custom
        /\ (Len(r.custom) = 0 /\ r.calls >= 1) =>
              /\ Len(r.first) > 0
              /\ r.redisKey = r.first
        /\ r.calls >= 1 =>
              r.used = IF Len(r.ucustom) > 0 THEN r.ucustom ELSE r.first
        /\ Len(r.first) > 0 =>
              r.first = GenLimiterKey(r.type, r.product, r.dopts, r.ctime, r.seed)

\* C12 witness: an instance above the sharding threshold derived its key in its
\* first Do(), then had its options replaced and real time pass, and its second
\* Do() used the same key.
C12_Witness ==
    LET r == ksInst[1] IN
    /\ r.calls = 2
    /\ Len(r.custom) = 0
    /\ r.type = FixedWindowType
    /\ r.dopts.fwLimit > MaxBucketCapacity
    /\ r.opts # r.dopts
    /\ ksNow > r.ctime
    /\ r.used = r.first
    /\ r.used = "dlimiter::FixedWindow::test::0::1"

\* C12 witness: a caller-supplied key replaced the derived key, and a later
\* WithRedisKey("") would leave it in place.
C12_WitnessCustom ==
    LET r == ksInst[1] IN
    /\ r.calls = 2
    /\ Len(r.first) > 0
    /\ r.used = "test_test_123456789"

\* Two Fixed Window instances of one product and one window of >= 1 s that have
\* both derived their keys.
KSSameWindow(a, b) ==
    /\ a.derived /\ b.derived
    /\ a.type = FixedWindowType /\ b.type = FixedWindowType
    /\ a.product = b.product
    /\ a.dopts.fwUnit >= 1
    /\ a.dopts.fwUnit = b.dopts.fwUnit

\* The window period of an instance's construction time and its shard index.
KSPeriod(a) == a.ctime \div a.dopts.fwUnit
KSShard(a)  == KSMod(a.dopts.fwLimit, a.seed)

C32_WitnessDifferentPeriods ==
    /\ KSSameWindow(ksInst[1], ksInst[2])
    /\ KSPeriod(ksInst[1]) # KSPeriod(ksInst[2])
    /\ KSShard(ksInst[1]) = KSShard(ksInst[2])
    /\ ksInst[1].redisKey # ksInst[2].redisKey

SHMaxSteps == 4

\* Limits above MaxBucketCapacity: two and three shard keys.
SHLimits == {MaxBucketCapacity + 1, 2 * MaxBucketCapacity + 1}

\* genLimiterKey lines 398-402: the shard indexes time.Now().Nanosecond() % tmp
\* can take.
SHShards(limitCount) == {KSMod(limitCount, seed) : seed \in 0..KSMaxSeed}

\* Numbers of Do() calls made back to back on one shard key.
SHBatches == {1, MaxBucketCapacity, MaxBucketCapacity + 1}

\* The counter of a key after n executions of FixedWindowScript with this limit.
RECURSIVE SHCounterAfter(_, _, _)
SHCounterAfter(counter, limit, n) ==
    IF n = 0 THEN counter
    ELSE IF n = 1 THEN FixedWindowCounter(counter, limit)
    ELSE LET half == SHCounterAfter(counter, limit, n \div 2)
         IN  IF half < 0 THEN half
             ELSE SHCounterAfter(half, limit, n - (n \div 2))

\* doFixedWindowLimiter line 249: the limit passed to the procedure for a shard key.
SHLimitArg(limitCount) == limitCount

SHInit ==
    /\ shLimit \in SHLimits
    /\ shCounter = [s \in SHShards(shLimit) |-> 0]
    /\ shAdmitted = 0
    /\ shSteps = 0

SHIdle ==
    /\ shLimit = 0
    /\ shCounter = <<>>
    /\ shAdmitted = 0
    /\ shSteps = 0

\* n limiter instances of the quota, constructed in one window period, each run
\* Do() once; their key derivations drew seeds that select the same shard.  Every
\* execution of the script is atomic on the key, and a call is admitted exactly
\* when it increments the counter.
SHDo(seed, n) ==
    LET shard == KSMod(shLimit, seed)
        after == SHCounterAfter(shCounter[shard], SHLimitArg(shLimit), n)
    IN  /\ shSteps < SHMaxSteps
        /\ shCounter' = [shCounter EXCEPT ![shard] = after]
        /\ shAdmitted' = shAdmitted + (after - shCounter[shard])
        /\ shSteps' = shSteps + 1
        /\ UNCHANGED shLimit
        /\ SHFrame

SHNext == \E seed \in 0..KSMaxSeed, n \in SHBatches : SHDo(seed, n)

\* ---- claims on the sharded quota ----

\* C34: for one quota whose limit exceeds the sharding threshold, the calls admitted
\* within one window over all its shard keys number at most the configured limit.
C34_ShardedTotalWithinLimit == shAdmitted <= shLimit

\* What the code bounds: each shard key admits at most the configured limit.
C34_EachShardWithinLimit ==
    \A s \in DOMAIN shCounter : shCounter[s] <= shLimit

\* Every shard key of the quota has admitted the full limit.
C34_AllShardsFull ==
    /\ shLimit > MaxBucketCapacity
    /\ Cardinality(DOMAIN shCounter) >= 2
    /\ \A s \in DOMAIN shCounter : shCounter[s] = shLimit

(***************************************************************************)
(* Procedure registry and invocation protocol                              *)
(***************************************************************************)
RGMaxInits   == 2
RGMaxLoaders == 2
RGCallers    == 1
RGMaxCalls   == 2
RGMaxEvicts  == 1

RGLoaders == 1..RGMaxLoaders
RGProcs   == 1..RGCallers

\* loadRedisScript loads the procedures one after another, Fixed Window first and
\* Leaky Bucket last.  The two procedures loaded in between are loaded, stored and
\* read by the same statements; the registry is modelled with the first and the
\* last of the sequence.
LoadOrder == <<FixedWindowType, LeakyBucketType>>
RGTypes == {FixedWindowType, LeakyBucketType}

\* The SHA1 digest of a procedure's source: one digest per source.
Sha(type) == "sha1:" \o type

\* NoScriptMsg and the other errors a store command can end with.
NoScriptMsg == "NOSCRIPT No matching script. Please use EVAL."
ErrIO       == "i/o timeout"
ErrRefused  == "connection refused"
NilErr      == "nil"

NilShas   == [t \in {} |-> ""]
EmptyShas == [t \in RGTypes |-> ""]

\* loadRedisScript line 47: ScriptShas = &ScriptSha{}.
ShasAfterReset(shas) == EmptyShas

\* LoadScript lines 373-379 and the assignment of loadRedisScript: the digest is
\* stored only when err == nil.
ShasAfterLoadAlways(shas, type, err) == [shas EXCEPT ![type] = Sha(type)]
ShasAfterLoad(shas, type, err) ==
    IF err = NilErr THEN [shas EXCEPT ![type] = Sha(type)] ELSE shas

\* The outcome of one store command under the present network state: whether the
\* store executed it and the error the client gets.
NetOutcome ==
    CASE stNet = "up"   -> [executed |-> TRUE,  err |-> NilErr]
      [] stNet = "slow" -> [executed |-> TRUE,  err |-> ErrIO]
      [] stNet = "down" -> [executed |-> FALSE, err |-> ErrRefused]

\* A loader: pc, whether Init runs it (sync), and the procedures whose load failed.
FreeLoader == [pc |-> "free", sync |-> FALSE, failed |-> {}]

\* A Do() call: pc, limiter type, digest read, the (ret, err) returned, and the
\* history of the call: number of EVALSHA and EVAL commands issued, which came
\* first, the error of each, how often the store ran the procedure (applied) and
\* whether the returned value is a procedure result (got); late = the digest had
\* been stored non-empty before the call read it.
IdleDoer ==
    [pc |-> "idle", type |-> "", sha |-> "", ret |-> 0, err |-> NilErr,
     evalshas |-> 0, evals |-> 0, first |-> "", shaErr |-> NilErr, evalErr |-> NilErr,
     applied |-> 0, got |-> FALSE, late |-> FALSE]

RGInit ==
    /\ scriptShas = NilShas
    /\ stScripts = {}
    /\ stNet \in {"up", "down"}
    /\ ld = [l \in RGLoaders |-> FreeLoader]
    /\ dr = [p \in RGProcs |-> IdleDoer]
    /\ rgInits = 0
    /\ rgCalls = 0
    /\ rgCrashed = FALSE
    /\ rgSeqs = 0
    /\ rgEverSet = {}
    /\ rgEvicts = 0

RGIdle ==
    /\ scriptShas = NilShas
    /\ stScripts = {}
    /\ stNet = "up"
    /\ ld = <<>>
    /\ dr = <<>>
    /\ rgInits = 0
    /\ rgCalls = 0
    /\ rgCrashed = FALSE
    /\ rgSeqs = 0
    /\ rgEverSet = {}
    /\ rgEvicts = 0

\* The lowest free loader slot, 0 when every slot is taken.
FreeSlot ==
    IF \E l \in RGLoaders : ld[l].pc = "free"
    THEN CHOOSE l \in RGLoaders : ld[l].pc = "free" /\ \A k \in 1..(l - 1) : ld[k].pc # "free"
    ELSE 0

\* Init(client, compress): runs loadRedisScript in the calling goroutine.
InitCall ==
    /\ ~rgCrashed
    /\ rgInits < RGMaxInits
    /\ FreeSlot # 0
    /\ ld' = [ld EXCEPT ![FreeSlot] = [FreeLoader EXCEPT !.pc = "reset", !.sync = TRUE]]
    /\ rgInits' = rgInits + 1
    /\ UNCHANGED <<scriptShas, stScripts, stNet, dr, rgCalls, rgCrashed, rgSeqs, rgEverSet, rgEvicts>>
    /\ RGFrame

\* loadRedisScript: the sync.Once is a local variable, so the body always runs.
\* First step: ScriptShas = &ScriptSha{}.
LoaderReset(l) ==
    /\ ~rgCrashed
    /\ ld[l].pc = "reset"
    /\ scriptShas' = ShasAfterReset(scriptShas)
    /\ ld' = [ld EXCEPT ![l].pc = "1"]
    /\ rgSeqs' = Min(rgSeqs + 1, RGMaxInits + RGMaxCalls)
    /\ UNCHANGED <<stScripts, stNet, dr, rgInits, rgCalls, rgCrashed, rgEverSet, rgEvicts>>
    /\ RGFrame

LoaderIndex(pc) ==
    CASE pc = "1" -> 1 [] pc = "2" -> 2

LoaderNextPc(pc) ==
    CASE pc = "1" -> "2" [] pc = "2" -> "done"

\* loadRedisScript lines 48-59: SCRIPT LOAD of the next procedure; its digest is
\* stored on success; on failure the sequence goes on with the next procedure.
LoaderLoadScript(l) ==
    /\ ~rgCrashed
    /\ ld[l].pc \in {"1", "2"}
    /\ LET type == LoadOrder[LoaderIndex(ld[l].pc)]
           out  == NetOutcome
       IN  /\ stScripts' = IF out.executed THEN stScripts \cup {type} ELSE stScripts
           /\ scriptShas' = ShasAfterLoad(scriptShas, type, out.err)
           /\ rgEverSet' = {t \in RGTypes : t \in rgEverSet \/ scriptShas'[t] # ""}
           /\ ld' = [ld EXCEPT ![l].pc = LoaderNextPc(ld[l].pc),
                               ![l].failed = IF out.err = NilErr THEN ld[l].failed
                                             ELSE ld[l].failed \cup {type}]
    /\ UNCHANGED <<stNet, dr, rgInits, rgCalls, rgCrashed, rgSeqs, rgEvicts>>
    /\ RGFrame

\* The network between the process and the store changes.
NetChange ==
    /\ ~rgCrashed
    /\ \E n \in {"up", "slow", "down"} :
          /\ n # stNet
          /\ stNet' = n
    /\ UNCHANGED <<scriptShas, stScripts, ld, dr, rgInits, rgCalls, rgCrashed, rgSeqs, rgEverSet, rgEvicts>>
    /\ RGFrame

\* The store loses its script cache (restart, or SCRIPT FLUSH by another client).
StoreEvict ==
    /\ ~rgCrashed
    /\ rgEvicts < RGMaxEvicts
    /\ stScripts # {}
    /\ stScripts' = {}
    /\ rgEvicts' = rgEvicts + 1
    /\ UNCHANGED <<scriptShas, stNet, ld, dr, rgInits, rgCalls, rgCrashed, rgSeqs, rgEverSet>>
    /\ RGFrame

\* A loader goroutine ends (Init returns to its caller).
LoaderExit(l) ==
    /\ ~rgCrashed
    /\ ld[l].pc = "done"
    /\ ld' = [ld EXCEPT ![l] = FreeLoader]
    /\ UNCHANGED <<scriptShas, stScripts, stNet, dr, rgInits, rgCalls, rgCrashed, rgSeqs, rgEverSet, rgEvicts>>
    /\ RGFrame

\* A limiter type outside the four constants (LimiterType is a string type).
OtherType == "Other"
RGDoTypes == RGTypes \cup {OtherType}

\* Decision values a procedure can reply with.
RGValues == {0, 1}

\* Do(): the switch on limiterType dispatches a procedure for the four types only.
DoDispatches(type) == type \in RGTypes

\* Do() begins.  With no case for the type Do() returns (0, nil) at once.
DoStart(p) ==
    /\ ~rgCrashed
    /\ dr[p].pc \in {"idle", "returned"}
    /\ scriptShas # NilShas
    /\ \E type \in RGDoTypes :
          dr' = [dr EXCEPT ![p] =
                    [IdleDoer EXCEPT !.type = type,
                                     !.pc = IF DoDispatches(type) THEN "sha" ELSE "returned"]]
    /\ rgCalls' = Min(rgCalls + 1, RGMaxCalls)
    /\ UNCHANGED <<scriptShas, stScripts, stNet, ld, rgInits, rgCrashed, rgSeqs, rgEverSet, rgEvicts>>
    /\ RGFrame

\* getScriptSha lines 356-365: the unsynchronized read of the type's digest.
DoGetScriptSha(p) ==
    /\ ~rgCrashed
    /\ dr[p].pc = "sha"
    /\ dr' = [dr EXCEPT ![p].sha = scriptShas[dr[p].type],
                        ![p].late = dr[p].type \in rgEverSet,
                        ![p].pc  = IF scriptShas[dr[p].type] = "" THEN "flush" ELSE "evalsha"]
    /\ UNCHANGED <<scriptShas, stScripts, stNet, ld, rgInits, rgCalls, rgCrashed, rgSeqs, rgEverSet, rgEvicts>>
    /\ RGFrame

\* The read races with a loader's write of the same digest (no lock, no atomic):
\* the string header may be read torn, length without data pointer, and the
\* process dies when the digest is used.
DoGetScriptShaTorn(p) ==
    /\ ~rgCrashed
    /\ dr[p].pc = "sha"
    /\ stNet = "up"
    /\ \E l \in RGLoaders :
          /\ ld[l].pc \in {"1", "2"}
          /\ LoadOrder[LoaderIndex(ld[l].pc)] = dr[p].type
    /\ rgCrashed' = TRUE
    /\ UNCHANGED <<scriptShas, stScripts, stNet, ld, dr, rgInits, rgCalls, rgSeqs, rgEverSet, rgEvicts>>
    /\ RGFrame

\* ScriptFlush lines 382-389: true only for the reply "ok"; the store replies "OK".
StoreFlushReply == "OK"
ScriptFlushResult(reply, err) == err = NilErr /\ reply = "ok"

\* getScriptSha lines 367-371: with an empty digest SCRIPT FLUSH is sent; only when
\* ScriptFlush reports success is loadRedisScript run.
DoScriptFlush(p) ==
    /\ ~rgCrashed
    /\ dr[p].pc = "flush"
    /\ LET out == NetOutcome
       IN  /\ stScripts' = IF out.executed THEN {} ELSE stScripts
           /\ dr' = [dr EXCEPT ![p].pc =
                        IF ScriptFlushResult(StoreFlushReply, out.err)
                        THEN "reload" ELSE "evalsha"]
    /\ UNCHANGED <<scriptShas, stNet, ld, rgInits, rgCalls, rgCrashed, rgSeqs, rgEverSet, rgEvicts>>
    /\ RGFrame

\* Whether the store holds a script for the digest sent with EVALSHA.
StoreHasSha(sha) == \E t \in stScripts : Sha(t) = sha

\* do*Limiter: the fallback condition err != nil && err.Error() == NoScriptMsg.
NeedsFallbackAnyError(err) == err # NilErr
NeedsFallback(err) == err # NilErr /\ err = NoScriptMsg

\* do*Limiter: what the call returns for the last invocation's (res, err).
DoResult(res, err) ==
    IF err # NilErr THEN [ret |-> 0, err |-> err] ELSE [ret |-> res, err |-> NilErr]

\* EvalSha lines 392-409 from do*Limiter: EVALSHA is sent; on the exact NOSCRIPT
\* message a goroutine running loadRedisScript is started and the caller goes on
\* to Eval; every other outcome is returned.
DoEvalSha(p) ==
    /\ ~rgCrashed
    /\ dr[p].pc = "evalsha"
    /\ \E v \in RGValues :
       LET out  == NetOutcome
           hit  == out.executed /\ StoreHasSha(dr[p].sha)
           err  == IF out.err # NilErr THEN out.err
                   ELSE IF hit THEN NilErr ELSE NoScriptMsg
           res  == IF err = NilErr THEN v ELSE 0
           r    == DoResult(res, err)
           d1   == [dr[p] EXCEPT !.evalshas = @ + 1,
                                 !.first = IF @ = "" THEN "evalsha" ELSE @,
                                 !.shaErr = err,
                                 !.applied = IF hit THEN @ + 1 ELSE @]
       IN  IF NeedsFallback(err)
           THEN /\ FreeSlot # 0
                /\ v = 0
                /\ ld' = [ld EXCEPT ![FreeSlot] = [FreeLoader EXCEPT !.pc = "reset"]]
                /\ dr' = [dr EXCEPT ![p] = [d1 EXCEPT !.pc = "eval"]]
           ELSE /\ (~hit => v = 0)
                /\ ld' = ld
                /\ dr' = [dr EXCEPT ![p] =
                            [d1 EXCEPT !.pc = "returned", !.ret = r.ret, !.err = r.err,
                                       !.got = (err = NilErr)]]
    /\ UNCHANGED <<scriptShas, stScripts, stNet, rgInits, rgCalls, rgCrashed, rgSeqs, rgEverSet, rgEvicts>>
    /\ RGFrame

\* Eval lines 412-422 from do*Limiter: EVAL with the source; the store runs the
\* procedure and keeps the script in its cache.
DoEval(p) ==
    /\ ~rgCrashed
    /\ dr[p].pc = "eval"
    /\ \E v \in RGValues :
       LET out == NetOutcome
           res == IF out.err = NilErr THEN v ELSE 0
           r   == DoResult(res, out.err)
       IN  /\ (~out.executed => v = 0)
           /\ stScripts' = IF out.executed THEN stScripts \cup {dr[p].type} ELSE stScripts
           /\ dr' = [dr EXCEPT ![p] =
                       [dr[p] EXCEPT !.pc = "returned", !.ret = r.ret, !.err = r.err,
                                     !.evals = @ + 1,
                                     !.first = IF @ = "" THEN "eval" ELSE @,
                                     !.evalErr = out.err,
                                     !.applied = IF out.executed THEN @ + 1 ELSE @,
                                     !.got = (out.err = NilErr)]]
    /\ UNCHANGED <<scriptShas, stNet, ld, rgInits, rgCalls, rgCrashed, rgSeqs, rgEverSet, rgEvicts>>
    /\ RGFrame

\* Init calls, possibly concurrent, and the load sequences they run.
RGNext ==
    \/ InitCall
    \/ \E l \in RGLoaders : LoaderReset(l)
    \/ \E l \in RGLoaders : LoaderLoadScript(l)
    \/ \E l \in RGLoaders : LoaderExit(l)
    \/ NetChange
    \/ StoreEvict

\* The program's first Init.
FirstInit ==
    /\ rgInits = 0
    /\ InitCall

\* One of the first RGMaxCalls calls of Do().
DoStartBounded(p) ==
    /\ rgCalls < RGMaxCalls
    /\ DoStart(p)

\* Do() calls after the program's Init, with the refreshes they start.
DoNext ==
    \/ FirstInit
    \/ \E l \in RGLoaders : LoaderReset(l)
    \/ \E l \in RGLoaders : LoaderLoadScript(l)
    \/ \E l \in RGLoaders : LoaderExit(l)
    \/ NetChange
    \/ StoreEvict
    \/ \E p \in RGProcs : DoStartBounded(p)
    \/ \E p \in RGProcs : DoGetScriptSha(p)
    \/ \E p \in RGProcs : DoGetScriptShaTorn(p)
    \/ \E p \in RGProcs : DoScriptFlush(p)
    \/ \E p \in RGProcs : DoEvalSha(p)
    \/ \E p \in RGProcs : DoEval(p)

\* Do() called again and again while the network state stays as it is.
DoLiveNext ==
    \/ FirstInit
    \/ \E l \in RGLoaders : LoaderReset(l)
    \/ \E l \in RGLoaders : LoaderLoadScript(l)
    \/ \E l \in RGLoaders : LoaderExit(l)
    \/ StoreEvict
    \/ \E p \in RGProcs : DoStart(p)
    \/ \E p \in RGProcs : DoGetScriptSha(p)
    \/ \E p \in RGProcs : DoGetScriptShaTorn(p)
    \/ \E p \in RGProcs : DoScriptFlush(p)
    \/ \E p \in RGProcs : DoEvalSha(p)
    \/ \E p \in RGProcs : DoEval(p)

\* Every goroutine that can take a step eventually takes one: loaders and the
\* store commands of a Do() call finish.  Nothing forces a new Do() or Init, a
\* network change or an eviction.
DoFairness ==
    /\ \A l \in RGLoaders :
          /\ WF_vars(LoaderReset(l))
          /\ WF_vars(LoaderLoadScript(l))
          /\ WF_vars(LoaderExit(l))
    /\ \A p \in RGProcs :
          /\ WF_vars(DoGetScriptSha(p))
          /\ WF_vars(DoScriptFlush(p))
          /\ WF_vars(DoEvalSha(p))
          /\ WF_vars(DoEval(p))

\* ---- claims on the invocation protocol and the registry ----

\* A Do() call that has returned.
Returned(p) == dr[p].pc = "returned"

\* The protocol for one returned call: one EVALSHA first, one EVAL exactly after the
\* NOSCRIPT message, the fallback's outcome returned, the procedure applied at most
\* once and exactly once when the error is nil.
ProtocolHolds(d) ==
    /\ d.evalshas = 1
    /\ d.first = "evalsha"
    /\ d.evals = IF d.shaErr = NoScriptMsg THEN 1 ELSE 0
    /\ d.shaErr = NoScriptMsg => d.err = d.evalErr
    /\ d.err # NoScriptMsg
    /\ d.applied <= 1
    /\ d.err = NilErr => d.applied = 1

\* C13: every Do() issues exactly one digest invocation first, a source invocation
\* exactly once iff the digest invocation failed with the NOSCRIPT message, returns
\* the fallback's outcome, and applies the procedure at most once, exactly once
\* when it returns a nil error.
C13_InvocationProtocol ==
    \A p \in RGProcs : Returned(p) => ProtocolHolds(dr[p])

\* C13 for the limiters of the four algorithm types: the protocol holds.
C13_ProtocolOfDispatched ==
    \A p \in RGProcs : (Returned(p) /\ DoDispatches(dr[p].type)) => ProtocolHolds(dr[p])

\* C14: a digest invocation that fails with an error other than the NOSCRIPT
\* message, or a failing fallback, makes Do() return (0, that error) with no
\* further invocation.
C14_ErrorsReturnedUnchanged ==
    \A p \in RGProcs :
        Returned(p) =>
            /\ (dr[p].evalshas = 1 /\ dr[p].shaErr \notin {NilErr, NoScriptMsg}) =>
                  /\ dr[p].ret = 0
                  /\ dr[p].err = dr[p].shaErr
                  /\ dr[p].evals = 0
            /\ (dr[p].evals >= 1 /\ dr[p].evalErr # NilErr) =>
                  /\ dr[p].ret = 0
                  /\ dr[p].err = dr[p].evalErr
                  /\ dr[p].evals = 1
                  /\ dr[p].evalshas = 1

\* C14 witness: the store ran the procedure on the digest invocation but the reply
\* timed out; Do() returned (0, the timeout) without any other invocation.
C14_Witness ==
    \E p \in RGProcs :
        /\ Returned(p)
        /\ dr[p].shaErr = ErrIO
        /\ dr[p].applied = 1
        /\ dr[p].err = ErrIO /\ dr[p].ret = 0
        /\ dr[p].evals = 0

\* C14 witness: the fallback failed after a NOSCRIPT reply.
C14_WitnessFallback ==
    \E p \in RGProcs :
        /\ Returned(p)
        /\ dr[p].shaErr = NoScriptMsg
        /\ dr[p].evalErr = ErrRefused
        /\ dr[p].err = ErrRefused /\ dr[p].ret = 0

\* C15: Do() returns a nil error only when a store procedure executed and produced
\* the returned value; a call with no procedure result returns a non-nil error.
C15_NoDecisionIsAnError ==
    \A p \in RGProcs :
        (Returned(p) /\ dr[p].err = NilErr) => (dr[p].got /\ dr[p].applied >= 1)

\* C17: however often Init is called, one load sequence is executed.
C17_OneLoadSequence == rgSeqs <= 1

\* C18: a digest that has been stored non-empty is read non-empty and equal to the
\* digest of the procedure's source by every later Do().
C18_DigestConsistency ==
    \A p \in RGProcs :
        (dr[p].pc \in {"flush", "evalsha", "eval", "returned"} /\ dr[p].late)
            => dr[p].sha = Sha(dr[p].type)

\* C19: in a load sequence that ran alone, a procedure whose load failed has an
\* empty digest, every other procedure has its digest stored, and the sequence
\* ran to its end.
C19_PartialSuccessLoad ==
    \A l \in RGLoaders :
        (ld[l].pc = "done" /\ rgSeqs = 1) =>
            \A t \in RGTypes :
                scriptShas[t] = IF t \in ld[l].failed THEN "" ELSE Sha(t)

\* C19 witness: Init's sequence failed to load the first procedure and loaded the
\* last one.
C19_Witness ==
    \E l \in RGLoaders :
        /\ ld[l].pc = "done" /\ ld[l].sync /\ rgSeqs = 1
        /\ ld[l].failed = {FixedWindowType}
        /\ scriptShas[FixedWindowType] = ""
        /\ scriptShas[LeakyBucketType] = Sha(LeakyBucketType)

\* C37: no step of a Do() call removes a procedure loaded in the store, whatever the
\* digest registry holds: Do() never flushes the store's procedure cache.
C37_DoNeverFlushes ==
    [][dr' # dr => stScripts \subseteq stScripts']_vars

\* A Do() call that read an empty digest is about to send SCRIPT FLUSH to a store
\* that holds the procedure of another type.
C37_FlushPending ==
    \E p \in RGProcs :
        /\ dr[p].pc = "flush"
        /\ stNet = "up"
        /\ \E t \in stScripts : t # dr[p].type

\* No Do() call is on the slow path: none flushes the store's scripts for an empty
\* digest and none runs the source fallback.
DigestAlone == \A p \in RGProcs : dr[p].pc \notin {"flush", "eval"}

\* C16: while the store stays reachable, the refresh started after a NOSCRIPT reply
\* reloads the procedures, so that from some point on every Do() succeeds on the
\* digest invocation alone.
C16_RefreshRestoresDigestPath ==
    <>[](stNet = "up") => <>[]DigestAlone

(***************************************************************************)
(* Decision record pipeline                                                *)
(***************************************************************************)
RCMaxNames == 2

\* The names under which observers are registered; each name has its own handler.
RCNames == 1..RCMaxNames

\* recordChan = make(chan LimiterRecord, 10000).
RecordChanCap == 10000

\* The package's state before its init() has run.
RCIdle ==
    /\ recordChan = <<>>
    /\ handlers = {}
    /\ handled = <<>>
    /\ rcDisp = "idle"
    /\ rcLog = <<>>
    /\ rcOrder = <<>>

\* The package's init(): recordChan is made and the processRecords goroutine started.
RCInit ==
    /\ recordChan = <<>>
    /\ handlers = {}
    /\ handled = <<>>
    /\ rcDisp = "start"
    /\ rcLog = <<>>
    /\ rcOrder = <<>>

\* A sequence without the entries equal to n.
RECURSIVE Without(_, _)
Without(seq, n) ==
    IF seq = <<>> THEN <<>>
    ELSE IF Head(seq) = n THEN Without(Tail(seq), n)
         ELSE <<Head(seq)>> \o Without(Tail(seq), n)

\* RegisterHandler(name, handler), under handlerMutex.Lock: handlers[name] = handler.
RegisterHandler(n) ==
    /\ n \notin handlers
    /\ handlers' = handlers \cup {n}
    /\ rcOrder' = Append(rcOrder, n)
    /\ UNCHANGED <<recordChan, handled, rcDisp, rcLog>>
    /\ RCFrame

\* UnregisterHandler(name), under handlerMutex.Lock: delete(handlers, name).
UnregisterHandler(n) ==
    /\ n \in handlers
    /\ handlers' = handlers \ {n}
    /\ rcOrder' = Without(rcOrder, n)
    /\ UNCHANGED <<recordChan, handled, rcDisp, rcLog>>
    /\ RCFrame

\* The orders in which `for _, handler := range handlers` can visit the map: Go
\* leaves the iteration order of a map unspecified, so every order of the
\* registered names is possible.
RangeOrdersRegistration(hs, order) == {order}
RangeOrders(hs, order) ==
    {o \in [1..Cardinality(hs) -> hs] : \A i, j \in DOMAIN o : i # j => o[i] # o[j]}

\* The Handle calls of one record, in the order o of the visit.
HandleCalls(o, rec, k) == [i \in DOMAIN o |-> [name |-> o[i], rec |-> rec, k |-> k]]

\* processRecords: one iteration of `for result := range recordChan`. With a record
\* in the channel it is received and, under handlerMutex.RLock, passed to the Handle
\* of every registered handler; with an empty channel the goroutine parks on the
\* receive until a record is sent.
ProcessRecords ==
    /\ rcDisp \in {"start", "parked"}
    /\ IF Len(recordChan) > 0
       THEN /\ recordChan' = Tail(recordChan)
            /\ \E o \in RangeOrders(handlers, rcOrder) :
                  handled' = handled \o HandleCalls(o, Head(recordChan), Len(rcLog) + 1)
            /\ rcLog' = Append(rcLog, Head(recordChan))
            /\ rcDisp' = "start"
       ELSE /\ rcDisp = "start"
            /\ rcDisp' = "parked"
            /\ UNCHANGED <<recordChan, handled, rcLog>>
    /\ UNCHANGED <<handlers, rcOrder>>
    /\ RCFrame

\* Do() calls, the registry refreshes they start, observers registering and
\* unregistering, and the dispatcher. No statement of Do(), of do*Limiter, of
\* EvalSha or of Eval sends to recordChan: the steps of Do() leave it unchanged.
RCNext ==
    \/ DoLiveNext
    \/ \E n \in RCNames : RegisterHandler(n)
    \/ \E n \in RCNames : UnregisterHandler(n)
    \/ ProcessRecords

\* The dispatcher goroutine keeps running, like the goroutines of DoFairness.
RCFairness == DoFairness /\ WF_vars(ProcessRecords)

\* ---- claims on the decision record pipeline ----

\* No Do() call is in progress.
NoDoRunning == \A p \in RGProcs : dr[p].pc \in {"idle", "returned"}

\* C20: every Do() call produces one decision record that the dispatcher receives
\* and passes to the registered observers: once n calls have been made and have
\* returned, at least n records are eventually dispatched.
C20_EveryDoIsRecorded ==
    \A n \in 1..RGMaxCalls :
        (rgCalls >= n /\ NoDoRunning) ~> (Len(rcLog) >= n)

\* A step in which a Do() call returns to its caller.
DoReturns == \E p \in RGProcs : dr[p].pc # "returned" /\ dr'[p].pc = "returned"

\* C21: the record of a Do() call is published without blocking or failing the
\* call: the returning call has queued its record when the queue had room and has
\* dropped it when the queue was full, and the queue never holds more records than
\* its capacity.
C21_PublishNeverBlocks ==
    /\ [](Len(recordChan) <= RecordChanCap)
    /\ [][DoReturns =>
            IF Len(recordChan) < RecordChanCap
            THEN Len(recordChan') = Len(recordChan) + 1
            ELSE recordChan' = recordChan]_vars

\* The names of the Handle calls added to the log by a step.
NewHandleNames ==
    [i \in 1..(Len(handled') - Len(handled)) |-> handled'[Len(handled) + i].name]

PLMaxRecords == 2
PLMaxNames   == 2
PLMaxOps     == 3

PLNames == 1..PLMaxNames

\* What an observer's Handle does: nothing with the registry, or a call of
\* RegisterHandler, or a call of UnregisterHandler for its own name.
PLKinds == {"plain", "registers", "unregisters"}

\* The records found in recordChan, numbered in queue order.
PLQueues == {[i \in 1..k |-> i] : k \in 1..PLMaxRecords}

PLNoExt  == [pc |-> "idle", op |-> "", name |-> 0, kind |-> ""]
PLNoGone == [ret |-> FALSE, at |-> 0, mid |-> FALSE]
PLAtRecv == [pc |-> "recv", rec |-> 0, todo |-> {}]

\* sync.RWMutex: Lock is granted when no read lock is held (the write lock is
\* never held across steps here); RLock is not granted while a Lock call waits.
PLCanLockAnyway(readers) == TRUE
PLCanLock(readers) == readers = 0

PLWriterWaiting == plExt.pc = "waiting" \/ plDisp.pc = "lock"

\* The dispatcher started by init() with records waiting in recordChan and no
\* observer registered. Do() never sends to recordChan, so the records are given
\* here rather than produced by a call.
PLInit ==
    /\ plChan \in PLQueues
    /\ plHandlers = [n \in PLNames |-> "none"]
    /\ plReaders = 0
    /\ plDisp = PLAtRecv
    /\ plExt = PLNoExt
    /\ plOps = 0
    /\ plHandled = <<>>
    /\ plGone = [n \in PLNames |-> PLNoGone]

PLIdle ==
    /\ plChan = <<>>
    /\ plHandlers = <<>>
    /\ plReaders = 0
    /\ plDisp = PLAtRecv
    /\ plExt = PLNoExt
    /\ plOps = 0
    /\ plHandled = <<>>
    /\ plGone = <<>>

\* The application calls RegisterHandler(name, handler) or UnregisterHandler(name):
\* the goroutine reaches handlerMutex.Lock().
PLExtCall(op, n, kind) ==
    /\ plExt.pc = "idle"
    /\ plOps < PLMaxOps
    /\ plExt' = [pc |-> "waiting", op |-> op, name |-> n, kind |-> kind]
    /\ plOps' = plOps + 1
    /\ UNCHANGED <<plChan, plHandlers, plReaders, plDisp, plHandled, plGone>>
    /\ PLFrame

\* RegisterHandler lines 35-38 / UnregisterHandler lines 42-45: the lock is
\* granted, the map is written, the lock is released and the call returns.
PLExtReturn ==
    /\ plExt.pc = "waiting"
    /\ PLCanLock(plReaders)
    /\ plHandlers' = [plHandlers EXCEPT ![plExt.name] =
                        IF plExt.op = "register" THEN plExt.kind ELSE "none"]
    /\ plGone' = [plGone EXCEPT ![plExt.name] =
                    IF plExt.op = "register" THEN PLNoGone
                    ELSE [ret |-> TRUE, at |-> Len(plHandled),
                          mid |-> plDisp.pc \in {"range", "lock"}]]
    /\ plExt' = PLNoExt
    /\ UNCHANGED <<plChan, plReaders, plDisp, plOps, plHandled>>
    /\ PLFrame

\* processRecords line 50: a record is received from recordChan.
PLRecv ==
    /\ plDisp.pc = "recv"
    /\ plChan # <<>>
    /\ plDisp' = [pc |-> "rlock", rec |-> Head(plChan), todo |-> {}]
    /\ plChan' = Tail(plChan)
    /\ UNCHANGED <<plHandlers, plReaders, plExt, plOps, plHandled, plGone>>
    /\ PLFrame

\* processRecords lines 51-53: RLock is granted and the range over handlers starts.
PLRLock ==
    /\ plDisp.pc = "rlock"
    /\ ~PLWriterWaiting
    /\ plReaders' = plReaders + 1
    /\ plDisp' = [plDisp EXCEPT !.pc = "range",
                                !.todo = {n \in PLNames : plHandlers[n] # "none"}]
    /\ UNCHANGED <<plChan, plHandlers, plExt, plOps, plHandled, plGone>>
    /\ PLFrame

\* processRecords line 54: handler.Handle(result) for the next name of the range (a
\* Go map is ranged over in no fixed order).  A plain Handle returns; one that
\* calls RegisterHandler or UnregisterHandler reaches handlerMutex.Lock() on the
\* dispatcher's goroutine, inside the read lock; that Lock() is granted only once
\* no read lock is held.
PLHandle(n) ==
    /\ plDisp.pc = "range"
    /\ n \in plDisp.todo
    /\ plHandled' = Append(plHandled, [name |-> n, rec |-> plDisp.rec])
    /\ plDisp' = IF plHandlers[n] = "plain"
                  THEN [plDisp EXCEPT !.todo = plDisp.todo \ {n}]
                  ELSE [plDisp EXCEPT !.pc = "lock"]
    /\ UNCHANGED <<plChan, plHandlers, plReaders, plExt, plOps, plGone>>
    /\ PLFrame

\* processRecords line 56: the range is over; RUnlock, and back to the receive.
PLRUnlock ==
    /\ plDisp.pc = "range"
    /\ plDisp.todo = {}
    /\ plReaders' = plReaders - 1
    /\ plDisp' = PLAtRecv
    /\ UNCHANGED <<plChan, plHandlers, plExt, plOps, plHandled, plGone>>
    /\ PLFrame

PLNext ==
    \/ \E n \in PLNames, kind \in PLKinds : PLExtCall("register", n, kind)
    \/ \E n \in PLNames : PLExtCall("unregister", n, "")
    \/ PLExtReturn
    \/ PLRecv
    \/ PLRLock
    \/ \E n \in PLNames : PLHandle(n)
    \/ PLRUnlock

\* ---- claims on the dispatcher and the registry ----

C38_StoppedWithRecordQueued ==
    /\ plDisp.pc = "lock"
    /\ plReaders = 1
    /\ plChan # <<>>
    /\ plExt.pc = "waiting"

\* The Handle calls made after position `at` of the history.
PLHandledAfter(at) == {k \in 1..Len(plHandled) : k > at}

\* C39: once UnregisterHandler(name) has returned, the observer registered under
\* that name receives no further Handle call, also for records queued before the
\* unregistration; and no dispatch of a record was in progress when it returned.
C39_NoHandleAfterUnregister ==
    \A n \in PLNames :
        plGone[n].ret =>
            /\ \A k \in PLHandledAfter(plGone[n].at) : plHandled[k].name # n
            /\ ~plGone[n].mid

\* C39 witness: observer 1 handled the first record and was unregistered; the
\* second record, queued before that, has since been dispatched to observer 2 only.
C39_Witness ==
    /\ plGone[1].ret
    /\ plGone[1].at >= 1
    /\ \E k \in 1..plGone[1].at : plHandled[k] = [name |-> 1, rec |-> 1]
    /\ \E k \in PLHandledAfter(plGone[1].at) : plHandled[k] = [name |-> 2, rec |-> 2]
    /\ plDisp = PLAtRecv
    /\ plChan = <<>>

(***************************************************************************)
(* Option normalization                                                    *)
(***************************************************************************)
OPMaxLimit == 2

\* Limits and token counts a caller passes; 0 is "left unset".
OPLimits == 0..OPMaxLimit

\* Windows in seconds a caller passes: unset, below, at and above the windows
\* whose double lies between 300 and 600.
OPWindows == {0, 1, 150, 200, 300, 400}

\* The zero value of Options.
OPZero ==
    [fw |-> [limitCount |-> 0, unitTime |-> 0, expiration |-> 0],
     sw |-> [limitCount |-> 0, unitTime |-> 0, expiration |-> 0],
     tb |-> [maxTokens |-> 0, initTokens |-> 0, timeInterval |-> 0, expiration |-> 0],
     lb |-> [leakRate |-> 0, capacity |-> 0, expiration |-> 0]]

\* The option constructors, lines 86-128. NewSlideWindowOption fills
\* fixedWindowOptions (lines 98-106).
OPNewFixedWindowOption(limitCount, unitTime) ==
    [OPZero EXCEPT !.fw.limitCount = limitCount, !.fw.unitTime = unitTime]
OPNewSlideWindowOptionOwn(limitCount, unitTime) ==
    [OPZero EXCEPT !.sw.limitCount = limitCount, !.sw.unitTime = unitTime]
OPNewSlideWindowOption(limitCount, unitTime) ==
    [OPZero EXCEPT !.fw.limitCount = limitCount, !.fw.unitTime = unitTime]
OPNewTokenBucketOption(maxTokens, timeInterval, initTokens) ==
    [OPZero EXCEPT !.tb.maxTokens = maxTokens, !.tb.initTokens = initTokens,
                   !.tb.timeInterval = timeInterval]
OPNewLeakyBucketOption(capacity, leakRate) ==
    [OPZero EXCEPT !.lb.leakRate = leakRate, !.lb.capacity = capacity]

\* What a caller hands to NewRateLimiter or WithOption: the constructor used, its
\* limit and window arguments, and the Options value it returned.
OPGivenSet ==
    {[ctor |-> FixedWindowType, limit |-> l, window |-> w,
      options |-> OPNewFixedWindowOption(l, w)] : l \in OPLimits, w \in OPWindows}
    \cup
    {[ctor |-> SlideWindowType, limit |-> l, window |-> w,
      options |-> OPNewSlideWindowOption(l, w)] : l \in OPLimits, w \in OPWindows}
    \cup
    {[ctor |-> TokenBucketType, limit |-> l, window |-> w,
      options |-> OPNewTokenBucketOption(l, w, l)] : l \in OPLimits, w \in OPWindows}
    \cup
    {[ctor |-> LeakyBucketType, limit |-> l, window |-> w,
      options |-> OPNewLeakyBucketOption(l, w)] : l \in OPLimits, w \in OPWindows}

\* No options passed: NewRateLimiter(product, type).
OPNoneGiven == [ctor |-> "none", limit |-> 0, window |-> 0, options |-> OPZero]

\* initOptions lines 177-205: the options of the instance after normalization.
InitOptions(type, cur, opt) ==
    CASE type = FixedWindowType ->
            [cur EXCEPT !.fw = [opt.fw EXCEPT !.expiration =
                                   IF opt.fw.expiration = 0 THEN 300 ELSE @]]
      [] type = SlideWindowType ->
            \* expiration == 0 implies expiration <= 3600: the first branch is taken.
            [cur EXCEPT !.sw = [opt.sw EXCEPT !.expiration =
                                   IF opt.sw.expiration = 0 THEN 3600 ELSE @]]
      [] type = TokenBucketType -> [cur EXCEPT !.tb = opt.tb]
      [] type = LeakyBucketType ->
            \* expiration == 0: `>= 14400` is false, `<= 3600` is true.
            [cur EXCEPT !.lb = [opt.lb EXCEPT !.expiration =
                                   IF opt.lb.expiration = 0 THEN 3600 ELSE @]]
      [] OTHER -> cur

\* do*Limiter: the limit, window and expiration the procedure is called with
\* (-1: the procedure takes no such argument). The token bucket's limit is
\* maxTokens and its window timeInterval; the leaky bucket's limit is its capacity.
ProcArgs(type, o) ==
    CASE type = FixedWindowType ->
            [limit |-> o.fw.limitCount, window |-> o.fw.unitTime, expiration |-> o.fw.expiration]
      [] type = SlideWindowType ->
            [limit |-> o.sw.limitCount, window |-> o.sw.unitTime, expiration |-> o.sw.expiration]
      [] type = TokenBucketType ->
            [limit |-> o.tb.maxTokens, window |-> o.tb.timeInterval, expiration |-> -1]
      [] type = LeakyBucketType ->
            [limit |-> o.lb.capacity, window |-> -1, expiration |-> -1]

OPNoArgs == [limit |-> -1, window |-> -1, expiration |-> -1]

OPIdle ==
    /\ opPc = "idle"
    /\ opType = ""
    /\ opOptions = OPZero
    /\ opGiven = OPNoneGiven
    /\ opArgs = OPNoArgs
    /\ opRet = 0

OPInit == OPIdle

\* The value the type's procedure returns for its first call on a key that holds
\* nothing, at time 0.
FirstResult(type, o) ==
    CASE type = FixedWindowType -> FixedWindowResult(0, o.fw.limitCount)
      [] type = SlideWindowType ->
            LET timeRange == SWTimeRange(o.sw.unitTime)
            IN  SWResult(o.sw.limitCount,
                         SWBeforeCount(EmptyHash, SWNewTime(0, timeRange), SWDiffVal(timeRange)))
      [] type = TokenBucketType ->
            TBFirstResult(TBInitArg(o.tb.initTokens, o.tb.maxTokens))
      [] type = LeakyBucketType ->
            IF LBAdmits(LBNewWater(0, 0, 0, o.lb.leakRate), o.lb.capacity) THEN 1 ELSE 0

\* NewRateLimiter(product, limiterType, ops...): options = ops[0] when given.
OPNewRateLimiter ==
    /\ opPc = "idle"
    /\ \E t \in LimiterTypes, g \in OPGivenSet \cup {OPNoneGiven} :
          /\ opType' = t
          /\ opGiven' = g
          /\ opOptions' = g.options
    /\ opPc' = "new"
    /\ UNCHANGED <<opArgs, opRet>>
    /\ OPFrame

\* WithOption(opt): r.options = opt.
OPWithOption ==
    /\ opPc = "new"
    /\ \E g \in OPGivenSet :
          /\ g # opGiven
          /\ opGiven' = g
          /\ opOptions' = g.options
    /\ UNCHANGED <<opPc, opType, opArgs, opRet>>
    /\ OPFrame

\* Do() on a key that holds nothing, with the store reachable and the procedures
\* loaded: initOptions(r.options), the argument list of the type's do*Limiter, the
\* procedure's value returned. Nothing is sent to recordChan.
OPDo ==
    /\ opPc = "new"
    /\ opOptions' = InitOptions(opType, opOptions, opOptions)
    /\ opArgs' = ProcArgs(opType, opOptions')
    /\ opRet' = FirstResult(opType, opOptions')
    /\ opPc' = "done"
    /\ UNCHANGED <<opType, opGiven>>
    /\ OPFrame

\* The pipeline's steps leave the limiter instance alone.
OPRegisterHandler(n) == RegisterHandler(n) /\ UNCHANGED opVars
OPUnregisterHandler(n) == UnregisterHandler(n) /\ UNCHANGED opVars
OPProcessRecords == ProcessRecords /\ UNCHANGED opVars

OPNext ==
    \/ OPNewRateLimiter
    \/ OPWithOption
    \/ OPDo
    \/ \E n \in RCNames : OPRegisterHandler(n)
    \/ \E n \in RCNames : OPUnregisterHandler(n)
    \/ OPProcessRecords

\* Do() runs to its end, and the dispatcher goroutine keeps running.
OPFairness == WF_vars(OPDo) /\ WF_vars(OPProcessRecords)

\* ---- claims on the option normalization ----

\* clamp(x, lo, hi).
Clamp(x, lo, hi) == Max(lo, Min(hi, x))

\* C23: after normalization, for the option set of the limiter's own constructor:
\* the limit is 1 when left unset and the given limit otherwise, the window is 1
\* second when left unset and the given window otherwise, and the Fixed Window
\* expiration is clamp(window * 2, 300, 600).
C23_NormalizedOptions ==
    (opPc = "done" /\ opGiven.ctor \in {opType, "none"}) =>
        /\ opArgs.limit = IF opGiven.limit = 0 THEN 1 ELSE opGiven.limit
        /\ opArgs.window # -1 =>
              opArgs.window = IF opGiven.window = 0 THEN 1 ELSE opGiven.window
        /\ opType = FixedWindowType =>
              opArgs.expiration = Clamp(opArgs.window * 2, 300, 600)

\* The first Do() of a SlideWindow limiter configured with NewSlideWindowOption
\* has returned.
SlideWindowFirstDone ==
    opPc = "done" /\ opType = SlideWindowType /\ opGiven.ctor = SlideWindowType

\* C24: a SlideWindow limiter configured with NewSlideWindowOption(limitCount,
\* unitTime) returns 0 from its first Do() on a fresh key, whatever limitCount and
\* unitTime are.
C24_SlideWindowFirstReturnsZero == SlideWindowFirstDone => opRet = 0

\* C24: ... and the record delivered to the observers carries that result.
C24_SlideWindowFirstRecord ==
    /\ [](SlideWindowFirstDone => opRet = 0)
    /\ (SlideWindowFirstDone /\ handlers # {})
           ~> (handlers = {}
               \/ \E i \in DOMAIN handled : handled[i].rec.Result = opRet)

(***************************************************************************)
(* Specifications                                                          *)
(***************************************************************************)
FWStart == FWInit /\ SWIdle /\ TBIdle /\ LBIdle /\ KSIdle /\ RGIdle /\ RCIdle /\ OPIdle /\ SHIdle /\ PLIdle
SpecFW == FWStart /\ [][FWNext]_vars

SWStart == SWInit /\ FWIdle /\ TBIdle /\ LBIdle /\ KSIdle /\ RGIdle /\ RCIdle /\ OPIdle /\ SHIdle /\ PLIdle
SpecSW == SWStart /\ [][SWNext]_vars

TBStart == TBInit /\ FWIdle /\ SWIdle /\ LBIdle /\ KSIdle /\ RGIdle /\ RCIdle /\ OPIdle /\ SHIdle /\ PLIdle
SpecTB == TBStart /\ [][TBNext]_vars

TBPollStart ==
    TBPollInit /\ FWIdle /\ SWIdle /\ LBIdle /\ KSIdle /\ RGIdle /\ RCIdle /\ OPIdle /\ SHIdle /\ PLIdle
SpecTBPoll == TBPollStart /\ [][TBPollNext]_vars

LBStart == LBInit /\ FWIdle /\ SWIdle /\ TBIdle /\ KSIdle /\ RGIdle /\ RCIdle /\ OPIdle /\ SHIdle /\ PLIdle
SpecLB == LBStart /\ [][LBNext]_vars

KSStart == KSInit /\ FWIdle /\ SWIdle /\ TBIdle /\ LBIdle /\ RGIdle /\ RCIdle /\ OPIdle /\ SHIdle /\ PLIdle
SpecKey == KSStart /\ [][KSNext]_vars

SpecKeyLife == KSStart /\ [][KSLifeNext]_vars

RGStart == RGInit /\ FWIdle /\ SWIdle /\ TBIdle /\ LBIdle /\ KSIdle /\ RCIdle /\ OPIdle /\ SHIdle /\ PLIdle
SpecRegistry == RGStart /\ [][RGNext]_vars
SpecInvoke == RGStart /\ [][DoNext]_vars
SpecInvokeLive == RGStart /\ [][DoLiveNext]_vars /\ DoFairness

RCStart == RGInit /\ RCInit /\ FWIdle /\ SWIdle /\ TBIdle /\ LBIdle /\ KSIdle /\ OPIdle /\ SHIdle /\ PLIdle
SpecRecord == RCStart /\ [][RCNext]_vars /\ RCFairness

SHStart ==
    SHInit /\ FWIdle /\ SWIdle /\ TBIdle /\ LBIdle /\ KSIdle /\ RGIdle /\ RCIdle /\ OPIdle
        /\ PLIdle
SpecSharded == SHStart /\ [][SHNext]_vars

PLStart ==
    PLInit /\ FWIdle /\ SWIdle /\ TBIdle /\ LBIdle /\ KSIdle /\ RGIdle /\ RCIdle /\ OPIdle
        /\ SHIdle
SpecDispatch == PLStart /\ [][PLNext]_vars

OPStart == OPInit /\ RCInit /\ FWIdle /\ SWIdle /\ TBIdle /\ LBIdle /\ KSIdle /\ RGIdle /\ SHIdle /\ PLIdle
SpecOptions == OPStart /\ [][OPNext]_vars /\ OPFairness

====
